---------------------------- MODULE Spec2Model ----------------------------
(***************************************************************************)
(* Model of the business scraper: the job controller of                    *)
(* src/src/job_manager.rs (one thread per job, a shared job table behind   *)
(* one mutex, cooperative pause / resume / stop), the bounded site crawl   *)
(* of src/src/scraper.rs (scrape_site), the places where the threads take  *)
(* and drop the job-table mutex, and the batch run of src/src/main.rs with *)
(* the progress ledger of src/src/resume_manager.rs.                       *)
(*                                                                         *)
(* Every step of a job thread that takes the job-table lock is one action; *)
(* the steps between two lock acquisitions that touch only thread-local    *)
(* data are folded into the following action.                              *)
(***************************************************************************)
EXTENDS Integers, Sequences, FiniteSets, TLC

VARIABLES
    jobs,       \* JobManager.jobs: job id -> JobStatus record (HashMap)
    pc,         \* position of each job's thread in run_scraper
    records,    \* run_scraper local `records` of each thread
    i,          \* run_scraper loop index `i` (0-based, as in the source)
    cur,        \* run_scraper locals of the current iteration
    out,        \* the output file of each job
    ret,        \* value returned by the last send_control call
    waited,     \* history: the job's thread has slept in the pause loop
    stop_status, \* history: the job's state when the stop request now in its
                \* control flag was recorded ("" while the flag holds none,
                \* "replaced" once a pause or resume has overwritten it unobserved)
    pause_items, \* history: the items the job has started since the pause request
                \* now in its control flag was recorded (-1 while it holds none)
    site_delays, \* history: the random_site_delay calls the job's thread has made
    start_url,  \* scrape_site argument
    cpc,        \* position inside scrape_site
    visited,    \* scrape_site local `visited`
    queue,      \* scrape_site local `queue`
    pages_visited, \* scrape_site local `pages_visited`
    url_str,    \* scrape_site local `url_str` (the URL popped from the queue)
    result,     \* scrape_site local `result`
    fetches,    \* history: every visit_page call made by this crawl, in order
    guard,      \* the thread that holds the MutexGuard of JobManager.jobs, or "none"
    at,         \* position of each thread between the lock operations and I/O calls
    mpc,        \* position of the batch process in main
    m_records,  \* main local `records` (the company column as read)
    m_i,        \* number of records the loop of main has consumed
    m_count,    \* main local `processed_count`
    progress,   \* main local `progress`: ProgressState.processed_urls
    progress_json, \* the file progress.json
    results_csv, \* the rows the file results_v2.csv holds
    csv_writer, \* the rows in the buffer of main's csv_writer
    hist,       \* history of the batch run
    xin,        \* the text handed to an Extractor function
    xpc,        \* which Extractor function is to run, or "done"
    xout        \* what the function returned

jobVars   == <<jobs, pc, records, i, cur, out, ret, waited, stop_status, pause_items, site_delays>>
crawlVars == <<start_url, cpc, visited, queue, pages_visited, url_str, result, fetches>>
lockVars  == <<guard, at>>
batchVars == <<mpc, m_records, m_i, m_count, progress, progress_json,
               results_csv, csv_writer, hist>>
extractVars == <<xin, xpc, xout>>
othersOfJob   == <<crawlVars, lockVars, batchVars, extractVars>>
othersOfCrawl == <<jobVars, lockVars, batchVars, extractVars>>
othersOfLock  == <<jobVars, crawlVars, batchVars, extractVars>>
othersOfBatch == <<jobVars, crawlVars, lockVars, extractVars>>
othersOfExtract == <<jobVars, crawlVars, lockVars, batchVars>>
vars      == <<jobs, pc, records, i, cur, out, ret, waited, stop_status, pause_items,
               site_delays,
               start_url, cpc, visited, queue, pages_visited, url_str, result, fetches,
               guard, at,
               mpc, m_records, m_i, m_count, progress, progress_json,
               results_csv, csv_writer, hist,
               xin, xpc, xout>>

-----------------------------------------------------------------------------
(* Bounds of the model *)

MaxRecords == 2
LogRecords == 18
MaxHrefs == 3
MaxItems == 2
MaxPieces == 2
MaxFill == 48
MaxLines == 3

(* Program constants *)

LogCap == 50
max_pages == 3
MaxLinks == 2
MinDigits == 10
MaxDigits == 13
TitleLimit == 50
ContactSlots == 5

JobIds == {"j1", "j2"}
Signals == {"pause", "resume", "stop", "bogus"}

-----------------------------------------------------------------------------
(* Job controller: data *)

\* An input record: only whether the website column is present and non-blank
\* matters to run_scraper; the company of the k-th record is identified by k.
Websites == {"given", "blank"}

RECURSIVE SeqsUpTo(_, _)
SeqsUpTo(S, n) ==
    IF n = 0 THEN {<<>>}
    ELSE LET shorter == SeqsUpTo(S, n - 1)
         IN  shorter \cup {Append(s, x) : s \in {t \in shorter : Len(t) = n - 1}, x \in S}

RecordLists == SeqsUpTo(Websites, MaxRecords)

\* What scrape_site hands back to run_scraper: outcome, email set, phone set,
\* contact list and source pages.
\* The results the controller is run with: every outcome without data, Success
\* and Blocked with an email, and Success with a phone only; no contacts, and
\* one source page exactly when there is an email or a phone.
ScrapeResults ==
    {r \in [status : {"Success", "NoData", "Blocked", "Error"},
            emails : {{}, {"e1"}}, phones : {{}, {"p1"}},
            contacts : {<<>>}, source_pages : {<<>>, <<"u1">>}] :
        /\ r.status = "Success" => (r.emails # {} \/ r.phones # {})
        /\ r.status \in {"NoData", "Error"} => (r.emails = {} /\ r.phones = {})
        /\ r.phones # {} => (r.status = "Success" /\ r.emails = {})
        /\ r.source_pages # <<>> <=> (r.emails # {} \/ r.phones # {})}

StatusStr(s) ==
    CASE s = "Success" -> "success"
      [] s = "NoData"  -> "no_data"
      [] s = "Blocked" -> "blocked"
      [] s = "Error"   -> "error"

\* Option<T>: None is the empty set, Some(x) the singleton
None == {}
Some(x) == {x}

\* record.company of the k-th record (k from 1)
Company(k) == ToString(k)

\* the locals of one iteration as initialised at lines 189-195
NoCur == [url |-> "", status_str |-> "no_data", emails |-> {}, phones |-> {},
          sources |-> <<>>, extracted_data |-> None, contacts |-> <<>>]

initial_status ==
    [status |-> "queued", total_records |-> 0, processed_count |-> 0,
     current_company |-> "Initializing...", logs |-> <<"Job started.">>,
     last_extracted |-> None, control_req |-> "none"]

\* job.logs.push(msg); if job.logs.len() > 50 { job.logs.remove(0); }
PushCapped(logs, msg) ==
    LET pushed == Append(logs, msg)
    IN  IF Len(pushed) > LogCap THEN Tail(pushed) ELSE pushed

\* the update_status closure
update_status(job, status, company, log, data) ==
    [job EXCEPT !.status = IF status # "" THEN status ELSE @,
                !.current_company = IF company # "" THEN company ELSE @,
                !.logs = IF log # None
                         THEN PushCapped(@, CHOOSE msg \in log : TRUE) ELSE @,
                !.last_extracted = IF data # None THEN data ELSE @]

-----------------------------------------------------------------------------
(* Job controller: operations *)

\* start_job: insert the initial status, spawn the thread
StartJob(j) ==
    /\ j \notin DOMAIN jobs
    /\ jobs' = (j :> initial_status) @@ jobs
    /\ pc' = [pc EXCEPT ![j] = "load"]
    /\ UNCHANGED <<records, i, cur, out, ret, waited, stop_status, pause_items, site_delays>>
    /\ UNCHANGED othersOfJob

\* send_control with a pause that sets the state at once, as resume does
SignalledEagerPause(job, signal) ==
    CASE signal = "pause"  -> [job EXCEPT !.control_req = "pause", !.status = "paused"]
      [] signal = "resume" -> [job EXCEPT !.control_req = "none",
                                          !.status = IF @ = "paused" THEN "processing" ELSE @]
      [] signal = "stop"   -> [job EXCEPT !.control_req = "stop"]
      [] OTHER             -> job

\* send_control with a resume that does not test for the paused state
SignalledResumeAlways(job, signal) ==
    CASE signal = "pause"  -> [job EXCEPT !.control_req = "pause"]
      [] signal = "resume" -> [job EXCEPT !.control_req = "none", !.status = "processing"]
      [] signal = "stop"   -> [job EXCEPT !.control_req = "stop"]
      [] OTHER             -> job

\* send_control that leaves a stop request in the flag once it is there
SignalledStopSticks(job, signal) ==
    CASE signal = "pause"  -> [job EXCEPT !.control_req = IF @ = "stop" THEN @ ELSE "pause"]
      [] signal = "resume" -> [job EXCEPT !.control_req = IF @ = "stop" THEN @ ELSE "none",
                                          !.status = IF @ = "paused" THEN "processing" ELSE @]
      [] signal = "stop"   -> [job EXCEPT !.control_req = "stop"]
      [] OTHER             -> job

\* send_control with a resume that clears the flag and leaves the state to the thread
SignalledResumeFlagOnly(job, signal) ==
    CASE signal = "pause"  -> [job EXCEPT !.control_req = "pause"]
      [] signal = "resume" -> [job EXCEPT !.control_req = "none"]
      [] signal = "stop"   -> [job EXCEPT !.control_req = "stop"]
      [] OTHER             -> job

\* the record send_control leaves for an existing job
Signalled(job, signal) ==
    CASE signal = "pause"  -> [job EXCEPT !.control_req = "pause"]
      [] signal = "resume" -> [job EXCEPT !.control_req = "none",
                                          !.status = IF @ = "paused" THEN "processing" ELSE @]
      [] signal = "stop"   -> [job EXCEPT !.control_req = "stop"]
      [] OTHER             -> job

\* the states in which the thread of a job is running
Live == {"queued", "processing", "paused"}

\* the history of the stop request: the state the job is in when send_control
\* puts a stop request into a flag that held none; a pause or resume that
\* finds a stop request which the running thread has not acted on leaves
\* "replaced", any other pause or resume clears the history
StopRecorded(job, signal, was) ==
    CASE signal = "stop" /\ job.control_req # "stop" -> job.status
      [] signal \in {"pause", "resume"} /\ job.control_req = "stop"
                                        /\ job.status \in Live -> "replaced"
      [] signal \in {"pause", "resume"} -> ""
      [] OTHER -> was

\* the history of the pause request: a pause put into the flag of a running
\* job that held none starts the count of items at 0, a resume or stop ends it
PauseRecorded(job, signal, was) ==
    CASE signal = "pause" /\ job.control_req # "pause" /\ job.status \in Live -> 0
      [] signal \in {"resume", "stop"} -> -1
      [] OTHER -> was

\* send_control that refuses a job whose thread has finished
send_controlLiveOnly(job_id, signal) ==
    /\ IF job_id \in DOMAIN jobs
          /\ jobs[job_id].status \notin {"completed", "stopped", "failed"}
       THEN /\ jobs' = [jobs EXCEPT ![job_id] = Signalled(@, signal)]
            /\ ret' = (signal \in {"pause", "resume", "stop"})
            /\ stop_status' = [stop_status EXCEPT ![job_id] = StopRecorded(jobs[job_id], signal, @)]
            /\ pause_items' = [pause_items EXCEPT ![job_id] = PauseRecorded(jobs[job_id], signal, @)]
            /\ UNCHANGED <<pc, records, i, cur, out, waited, site_delays>>
       ELSE /\ ret' = FALSE
            /\ UNCHANGED <<jobs, pc, records, i, cur, out, waited, stop_status, pause_items, site_delays>>
    /\ UNCHANGED othersOfJob

\* send_control that applies the signal to every job of the table
send_controlAllJobs(job_id, signal) ==
    /\ IF job_id \in DOMAIN jobs
       THEN /\ jobs' = [k \in DOMAIN jobs |-> Signalled(jobs[k], signal)]
            /\ ret' = (signal \in {"pause", "resume", "stop"})
            /\ stop_status' = [stop_status EXCEPT ![job_id] = StopRecorded(jobs[job_id], signal, @)]
            /\ pause_items' = [pause_items EXCEPT ![job_id] = PauseRecorded(jobs[job_id], signal, @)]
            /\ UNCHANGED <<pc, records, i, cur, out, waited, site_delays>>
       ELSE /\ ret' = FALSE
            /\ UNCHANGED <<jobs, pc, records, i, cur, out, waited, stop_status, pause_items, site_delays>>
    /\ UNCHANGED othersOfJob

\* lines 66-83
send_control(job_id, signal) ==
    /\ IF job_id \in DOMAIN jobs
       THEN /\ jobs' = [jobs EXCEPT ![job_id] = Signalled(@, signal)]
            /\ ret' = (signal \in {"pause", "resume", "stop"})
            /\ stop_status' = [stop_status EXCEPT ![job_id] = StopRecorded(jobs[job_id], signal, @)]
            /\ pause_items' = [pause_items EXCEPT ![job_id] = PauseRecorded(jobs[job_id], signal, @)]
            /\ UNCHANGED <<pc, records, i, cur, out, waited, site_delays>>
       ELSE /\ ret' = FALSE
            /\ UNCHANGED <<jobs, pc, records, i, cur, out, waited, stop_status, pause_items, site_delays>>
    /\ UNCHANGED othersOfJob

\* run_scraper, lines 101-111: load the records, publish the total, go to processing
LoadRecords(j, recs) ==
    /\ pc[j] = "load"
    /\ records' = [records EXCEPT ![j] = recs]
    /\ jobs' = [jobs EXCEPT ![j] = [@ EXCEPT !.total_records = Len(recs),
                                             !.status = "processing"]]
    /\ pc' = [pc EXCEPT ![j] = "open"]
    /\ UNCHANGED <<i, cur, out, ret, waited, stop_status, pause_items, site_delays>>
    /\ UNCHANGED othersOfJob

\* run_scraper, lines 116-140: open (truncate) the output file, write the header
OpenOutput(j) ==
    /\ pc[j] = "open"
    /\ out' = [out EXCEPT ![j] = [header |-> TRUE, rows |-> <<>>]]
    /\ i' = [i EXCEPT ![j] = 0]
    /\ pc' = [pc EXCEPT ![j] = IF Len(records[j]) = 0 THEN "finish" ELSE "check"]
    /\ UNCHANGED <<jobs, records, cur, ret, waited, stop_status, pause_items, site_delays>>
    /\ UNCHANGED othersOfJob

\* an open failure that marks the job failed and then goes on into the loop
OpenOutputFailsGoesOn(j) ==
    /\ pc[j] = "open"
    /\ jobs' = [jobs EXCEPT ![j] =
                    update_status(@, "failed", "", Some("Failed to open output file"), None)]
    /\ i' = [i EXCEPT ![j] = 0]
    /\ pc' = [pc EXCEPT ![j] = IF Len(records[j]) = 0 THEN "finish" ELSE "check"]
    /\ UNCHANGED <<records, cur, out, ret, waited, stop_status, pause_items, site_delays>>
    /\ UNCHANGED othersOfJob

\* lines 118-121, the Err arm of the open: the job fails and the thread returns
OpenOutputFails(j) ==
    /\ pc[j] = "open"
    /\ jobs' = [jobs EXCEPT ![j] =
                    update_status(@, "failed", "", Some("Failed to open output file"), None)]
    /\ pc' = [pc EXCEPT ![j] = "exited"]
    /\ UNCHANGED <<records, i, cur, out, ret, waited, stop_status, pause_items, site_delays>>
    /\ UNCHANGED othersOfJob

\* the control loop without the return after a stop
control_checkNoReturn(job) ==
    IF job.control_req = "stop"
    THEN [job |-> [job EXCEPT !.status = "stopped",
                              !.logs = Append(@, "Job stopped by user.")],
          next |-> "count"]
    ELSE IF job.control_req = "pause"
    THEN [job |-> [job EXCEPT !.status = "paused"], next |-> "sleep"]
    ELSE IF job.status = "paused" /\ job.control_req = "none"
    THEN [job |-> [job EXCEPT !.status = "processing",
                              !.logs = Append(@, "Job resumed.")],
          next |-> "count"]
    ELSE [job |-> job, next |-> "count"]

\* the control loop honouring a stop only while the state is processing
control_checkStopWhileProcessing(job) ==
    IF job.control_req = "stop" /\ job.status = "processing"
    THEN [job |-> [job EXCEPT !.status = "stopped",
                              !.logs = Append(@, "Job stopped by user.")],
          next |-> "exited"]
    ELSE IF job.control_req = "pause"
    THEN [job |-> [job EXCEPT !.status = "paused"], next |-> "sleep"]
    ELSE IF job.status = "paused" /\ job.control_req = "none"
    THEN [job |-> [job EXCEPT !.status = "processing",
                              !.logs = Append(@, "Job resumed.")],
          next |-> "count"]
    ELSE [job |-> job, next |-> "count"]

\* the control loop that marks the job paused and goes on with the record
control_checkNoWait(job) ==
    IF job.control_req = "stop"
    THEN [job |-> [job EXCEPT !.status = "stopped",
                              !.logs = Append(@, "Job stopped by user.")],
          next |-> "exited"]
    ELSE IF job.control_req = "pause"
    THEN [job |-> [job EXCEPT !.status = "paused"], next |-> "count"]
    ELSE IF job.status = "paused" /\ job.control_req = "none"
    THEN [job |-> [job EXCEPT !.status = "processing",
                              !.logs = Append(@, "Job resumed.")],
          next |-> "count"]
    ELSE [job |-> job, next |-> "count"]

\* one pass of the control loop, lines 144-171: the record the locked block
\* leaves and where the thread goes next (return, sleep and re-check, or break)
control_check(job) ==
    IF job.control_req = "stop"
    THEN [job |-> [job EXCEPT !.status = "stopped",
                              !.logs = Append(@, "Job stopped by user.")],
          next |-> "exited"]
    ELSE IF job.control_req = "pause"
    THEN [job |-> [job EXCEPT !.status = "paused"], next |-> "sleep"]
    ELSE IF job.status = "paused" /\ job.control_req = "none"
    THEN [job |-> [job EXCEPT !.status = "processing",
                              !.logs = Append(@, "Job resumed.")],
          next |-> "count"]
    ELSE [job |-> job, next |-> "count"]

ControlCheck(j) ==
    /\ pc[j] = "check"
    /\ jobs' = [jobs EXCEPT ![j] = control_check(@).job]
    /\ pc' = [pc EXCEPT ![j] = control_check(jobs[j]).next]
    /\ waited' = [waited EXCEPT ![j] = @ \/ control_check(jobs[j]).next = "sleep"]
    /\ UNCHANGED <<records, i, cur, out, ret, stop_status, pause_items, site_delays>>
    /\ UNCHANGED othersOfJob

\* the pause loop whose `continue` goes on with the next record
PauseSleepSkipsItem(j) ==
    /\ pc[j] = "sleep"
    /\ i' = [i EXCEPT ![j] = @ + 1]
    /\ pc' = [pc EXCEPT ![j] = IF i[j] + 1 < Len(records[j]) THEN "check" ELSE "finish"]
    /\ UNCHANGED <<jobs, records, cur, out, ret, waited, stop_status, pause_items, site_delays>>
    /\ UNCHANGED othersOfJob

\* lines 166-169: sleep 500 ms, then re-check
PauseSleep(j) ==
    /\ pc[j] = "sleep"
    /\ pc' = [pc EXCEPT ![j] = "check"]
    /\ UNCHANGED <<jobs, records, i, cur, out, ret, waited, stop_status, pause_items, site_delays>>
    /\ UNCHANGED othersOfJob

\* a count that publishes the item's index without the one added to it
SetProcessedIndexOnly(j) ==
    /\ pc[j] = "count"
    /\ jobs' = [jobs EXCEPT ![j] = [@ EXCEPT !.processed_count = i[j],
                                             !.current_company = Company(i[j] + 1)]]
    /\ cur' = [cur EXCEPT ![j] = NoCur]
    /\ pc' = [pc EXCEPT ![j] = "target"]
    /\ pause_items' = [pause_items EXCEPT ![j] = IF @ >= 0 THEN @ + 1 ELSE @]
    /\ UNCHANGED <<records, i, out, ret, waited, stop_status, site_delays>>
    /\ UNCHANGED othersOfJob

\* lines 173-179: processed_count = i + 1, current_company = record.company
SetProcessed(j) ==
    /\ pc[j] = "count"
    /\ jobs' = [jobs EXCEPT ![j] = [@ EXCEPT !.processed_count = i[j] + 1,
                                             !.current_company = Company(i[j] + 1)]]
    /\ cur' = [cur EXCEPT ![j] = NoCur]
    /\ pc' = [pc EXCEPT ![j] = "target"]
    /\ pause_items' = [pause_items EXCEPT ![j] = IF @ >= 0 THEN @ + 1 ELSE @]
    /\ UNCHANGED <<records, i, out, ret, waited, stop_status, site_delays>>
    /\ UNCHANGED othersOfJob

\* lines 182-187 and 197-199: the website is given, or the search is announced
Target(j) ==
    /\ pc[j] = "target"
    /\ IF records[j][i[j] + 1] = "blank"
       THEN /\ jobs' = [jobs EXCEPT ![j] = update_status(@, "", Company(i[j] + 1), Some("Searching"), None)]
            /\ pc' = [pc EXCEPT ![j] = "search"]
            /\ UNCHANGED cur
       ELSE /\ cur' = [cur EXCEPT ![j].url = "given"]
            /\ pc' = [pc EXCEPT ![j] = "announce"]
            /\ UNCHANGED jobs
    /\ UNCHANGED <<records, i, out, ret, waited, stop_status, pause_items, site_delays>>
    /\ UNCHANGED othersOfJob

\* a search that hands the item to the crawl whether or not a site was found
SearchAlwaysCrawls(j, found) ==
    /\ pc[j] = "search"
    /\ cur' = [cur EXCEPT ![j].url = IF found THEN "found" ELSE ""]
    /\ pc' = [pc EXCEPT ![j] = "announce"]
    /\ UNCHANGED <<jobs, records, i, out, ret, waited, stop_status, pause_items, site_delays>>
    /\ UNCHANGED othersOfJob

\* line 186: search_company returns Some(url) or None
Search(j, found) ==
    /\ pc[j] = "search"
    /\ cur' = [cur EXCEPT ![j].url = IF found THEN "found" ELSE ""]
    /\ pc' = [pc EXCEPT ![j] = IF found THEN "announce" ELSE "notfound"]
    /\ UNCHANGED <<jobs, records, i, out, ret, waited, stop_status, pause_items, site_delays>>
    /\ UNCHANGED othersOfJob

\* line 199
Announce(j) ==
    /\ pc[j] = "announce"
    /\ jobs' = [jobs EXCEPT ![j] = update_status(@, "", Company(i[j] + 1), Some("Scraping"), None)]
    /\ pc' = [pc EXCEPT ![j] = "scrape"]
    /\ UNCHANGED <<records, i, cur, out, ret, waited, stop_status, pause_items, site_delays>>
    /\ UNCHANGED othersOfJob

\* lines 203-222: the locals of the iteration once scrape_site has returned res
Scraped(locals, res) ==
    [locals EXCEPT !.status_str = StatusStr(res.status),
                   !.emails = res.emails,
                   !.phones = res.phones,
                   !.sources = res.source_pages,
                   !.contacts = res.contacts,
                   !.extracted_data = Some([emails |-> res.emails,
                                            phones |-> res.phones,
                                            contacts |-> res.contacts])]

\* lines 201-222: scrape_site returns res
Scrape(j, res) ==
    /\ pc[j] = "scrape"
    /\ cur' = [cur EXCEPT ![j] = Scraped(@, res)]
    /\ pc' = [pc EXCEPT ![j] = "found"]
    /\ UNCHANGED <<jobs, records, i, out, ret, waited, stop_status, pause_items, site_delays>>
    /\ UNCHANGED othersOfJob

\* lines 223-226
NotFound(j) ==
    /\ pc[j] = "notfound"
    /\ cur' = [cur EXCEPT ![j].status_str = "not_found"]
    /\ jobs' = [jobs EXCEPT ![j] = update_status(@, "", Company(i[j] + 1), Some("Website not found"), None)]
    /\ pc' = [pc EXCEPT ![j] = "found"]
    /\ UNCHANGED <<records, i, out, ret, waited, stop_status, pause_items, site_delays>>
    /\ UNCHANGED othersOfJob

\* lines 228-231: log the finding when an email or a phone was found
Found(j) ==
    /\ pc[j] = "found"
    /\ jobs' = [jobs EXCEPT ![j] =
                    IF cur[j].emails # {} \/ cur[j].phones # {}
                    THEN update_status(@, "", "", Some("Found"), cur[j].extracted_data)
                    ELSE @]
    /\ pc' = [pc EXCEPT ![j] = "write"]
    /\ UNCHANGED <<records, i, cur, out, ret, waited, stop_status, pause_items, site_delays>>
    /\ UNCHANGED othersOfJob

\* Option::unwrap_or_default of a string
unwrap_or_default(o, default) == IF o = None THEN default ELSE CHOOSE x \in o : TRUE

\* lines 246-258: the four columns of contact slot k (a phone is a sequence
\* of characters, the other fields are strings)
Slot(contacts, k) ==
    IF k <= Len(contacts)
    THEN [name  |-> unwrap_or_default(contacts[k].name, ""),
          title |-> unwrap_or_default(contacts[k].title, ""),
          phone |-> unwrap_or_default(contacts[k].phone, <<>>),
          email |-> unwrap_or_default(contacts[k].email, "")]
    ELSE [name |-> "", title |-> "", phone |-> <<>>, email |-> ""]

\* lines 233-261: one row for the record, flushed
Row(j) ==
    [company |-> Company(i[j] + 1), website |-> cur[j].url, emails |-> cur[j].emails,
     phones |-> cur[j].phones, sources |-> cur[j].sources, status |-> cur[j].status_str,
     contacts |-> [k \in 1..ContactSlots |-> Slot(cur[j].contacts, k)]]

\* the row written, then the loop left whatever the index
WriteRowEndsLoop(j) ==
    /\ pc[j] = "write"
    /\ out' = [out EXCEPT ![j].rows = Append(@, Row(j))]
    /\ cur' = [cur EXCEPT ![j] = NoCur]
    /\ pc' = [pc EXCEPT ![j] = "finish"]
    /\ i' = [i EXCEPT ![j] = @ + 1]
    /\ UNCHANGED <<jobs, records, ret, waited, stop_status, pause_items, site_delays>>
    /\ UNCHANGED othersOfJob

\* the row written, then the site delay whatever the index
WriteRowDelaysAlways(j) ==
    /\ pc[j] = "write"
    /\ out' = [out EXCEPT ![j].rows = Append(@, Row(j))]
    /\ cur' = [cur EXCEPT ![j] = NoCur]
    /\ IF i[j] < Len(records[j]) - 1
       THEN /\ pc' = [pc EXCEPT ![j] = "delay"]
            /\ UNCHANGED <<i, site_delays>>
       ELSE /\ pc' = [pc EXCEPT ![j] = "finish"]
            /\ i' = [i EXCEPT ![j] = @ + 1]
            /\ site_delays' = [site_delays EXCEPT ![j] = @ + 1]
    /\ UNCHANGED <<jobs, records, ret, waited, stop_status, pause_items>>
    /\ UNCHANGED othersOfJob

WriteRow(j) ==
    /\ pc[j] = "write"
    /\ out' = [out EXCEPT ![j].rows = Append(@, Row(j))]
    /\ cur' = [cur EXCEPT ![j] = NoCur]
    /\ IF i[j] < Len(records[j]) - 1
       THEN /\ pc' = [pc EXCEPT ![j] = "delay"]
            /\ UNCHANGED i
       ELSE /\ pc' = [pc EXCEPT ![j] = "finish"]
            /\ i' = [i EXCEPT ![j] = @ + 1]
    /\ UNCHANGED <<jobs, records, ret, waited, stop_status, pause_items, site_delays>>
    /\ UNCHANGED othersOfJob

\* lines 263-270: the site delay, then the next iteration
SiteDelay(j) ==
    /\ pc[j] = "delay"
    /\ i' = [i EXCEPT ![j] = @ + 1]
    /\ pc' = [pc EXCEPT ![j] = "check"]
    /\ site_delays' = [site_delays EXCEPT ![j] = @ + 1]
    /\ UNCHANGED <<jobs, records, cur, out, ret, waited, stop_status, pause_items>>
    /\ UNCHANGED othersOfJob

\* a thread that returns at the end of the list without the last status update
FinishSilent(j) ==
    /\ pc[j] = "finish"
    /\ pc' = [pc EXCEPT ![j] = "exited"]
    /\ UNCHANGED <<jobs, records, i, cur, out, ret, waited, stop_status, pause_items, site_delays>>
    /\ UNCHANGED othersOfJob

\* line 273
Finish(j) ==
    /\ pc[j] = "finish"
    /\ jobs' = [jobs EXCEPT ![j] =
                    update_status(@, "completed", "Done", Some("All records processed."), None)]
    /\ pc' = [pc EXCEPT ![j] = "exited"]
    /\ UNCHANGED <<records, i, cur, out, ret, waited, stop_status, pause_items, site_delays>>
    /\ UNCHANGED othersOfJob

-----------------------------------------------------------------------------
(* Extractor: the pure functions of src/src/extractor.rs *)

\* a string is the sequence of its characters
IsDigit(c) == c \in {"0", "1", "2", "3", "4", "5", "6", "7", "8", "9"}
IsSpace(c) == c \in {" ", "\n"}

RECURSIVE TrimStart(_)
TrimStart(s) == IF s # <<>> /\ IsSpace(Head(s)) THEN TrimStart(Tail(s)) ELSE s

RECURSIVE TrimEnd(_)
TrimEnd(s) ==
    IF s # <<>> /\ IsSpace(s[Len(s)]) THEN TrimEnd(SubSeq(s, 1, Len(s) - 1)) ELSE s

\* str::trim
TrimStr(s) == TrimEnd(TrimStart(s))

\* p.chars().filter(|c| c.is_digit(10)).collect()
Digits(s) == SelectSeq(s, IsDigit)

\* the pieces of text a page may hold between other words
PlainNo    == <<"9", "8", "7", "6", "5", "4", "3", "2", "1", "0">>
DashedNo   == <<"9", "8", "7", "-", "6", "5", "4", "-", "3", "2", "1", "0">>
PrefixedNo == <<"+", "9", "1", " ", "9", "8", "7", "6", "5", "4", "3", "2", "1", "0">>
ShortNo    == <<"5", "5", "5", "-", "1", "2", "3", "4">>
LongNo     == <<"1", "2", "3", "4", "5", "1", "2", "3", "4", "5", "1", "2", "3", "4">>
OtherNo    == <<"8", "0", "0", "5", "5", "5", "0", "1", "0", "0">>
Word       == <<"c", "a", "l", "l">>
Pieces == {PlainNo, DashedNo, PrefixedNo, ShortNo, LongNo, OtherNo, Word}

\* the matches of indian_mobile_regex in a piece
indian_mobile_regex(piece) ==
    IF piece \in {PlainNo, PrefixedNo, OtherNo} THEN <<piece>> ELSE <<>>

\* the matches of phone_regex in a piece
phone_regex(piece) == IF piece = Word THEN <<>> ELSE <<piece>>

RECURSIVE IndianMatches(_)
\* indian_mobile_regex.captures_iter(text), text being pieces apart from each other
IndianMatches(text) ==
    IF text = <<>> THEN <<>>
    ELSE indian_mobile_regex(Head(text)) \o IndianMatches(Tail(text))

RECURSIVE GenericMatches(_)
\* phone_regex.captures_iter(text)
GenericMatches(text) ==
    IF text = <<>> THEN <<>>
    ELSE phone_regex(Head(text)) \o GenericMatches(Tail(text))

Range(s) == {s[k] : k \in DOMAIN s}

\* extract_phones without the digit count of the generic matches
extract_phonesUnchecked(text) ==
    {TrimStr(p) : p \in Range(IndianMatches(text))}
    \cup {TrimStr(p) : p \in Range(GenericMatches(text))}

\* extract_phones
extract_phones(text) ==
    {TrimStr(p) : p \in Range(IndianMatches(text))}
    \cup {q \in {TrimStr(p) : p \in Range(GenericMatches(text))} :
            Len(Digits(q)) >= MinDigits /\ Len(Digits(q)) <= MaxDigits}

PhoneTexts == SeqsUpTo(Pieces, MaxPieces)

\* the keywords of extract_job_title this model keeps, in the order of `titles`
titles == << <<"c", "e", "o">>, <<"v", "p">> >>

Delims == {",", ".", "|", ":", "\n"}

Lower(c) ==
    CASE c = "C" -> "c" [] c = "E" -> "e" [] c = "O" -> "o"
      [] c = "V" -> "v" [] c = "P" -> "p" [] OTHER -> c

\* str::to_lowercase
to_lowercase(s) == [k \in DOMAIN s |-> Lower(s[k])]

\* the positions at which pat occurs in s
Occurrences(s, pat) ==
    {k \in 1..(Len(s) - Len(pat) + 1) : SubSeq(s, k, k + Len(pat) - 1) = pat}

Least(S) == CHOOSE x \in S : \A y \in S : x <= y
Greatest(S) == CHOOSE x \in S : \A y \in S : x >= y

\* text[start..end] of extract_job_title for the keyword found at idx
Phrase(text, idx) ==
    LET text_lower == to_lowercase(text)
        before == {k \in 1..(idx - 1) : text_lower[k] \in Delims}
        after  == {k \in idx..Len(text) : text_lower[k] \in Delims}
        start  == IF before = {} THEN 1 ELSE Greatest(before) + 1
        end    == IF after = {} THEN Len(text) ELSE Least(after) - 1
    IN  SubSeq(text, start, end)

\* extract_job_title
extract_job_title(text) ==
    LET text_lower == to_lowercase(text)
        found == {t \in DOMAIN titles : Occurrences(text_lower, titles[t]) # {}}
    IN  IF found = {} THEN None
        ELSE LET title == titles[Least(found)]
                 idx == Least(Occurrences(text_lower, title))
                 candidate == TrimStr(Phrase(text, idx))
             IN  IF Len(candidate) < TitleLimit /\ Len(candidate) > Len(title)
                 THEN Some(candidate)
                 ELSE Some(title)

Xs(n) == [k \in 1..n |-> "x"]

\* texts around one keyword: an optional earlier clause, letters, the keyword
\* (in either case, or a letter that is no keyword), letters, an optional
\* later clause
TitleTexts ==
    {lead \o Xs(a) \o kw \o Xs(b) \o tail :
        lead \in {<<>>, <<"y", ",">>, <<"v", "p", ",", " ">>},
        a \in 0..1,
        kw \in {<<"c", "e", "o">>, <<"C", "E", "O">>, <<"v", "p">>, <<"q">>},
        b \in 0..MaxFill,
        tail \in {<<>>, <<" ", ".", "z">>}}

ExtractIdle ==
    /\ xin = [kind |-> "none", text |-> <<>>]
    /\ xpc = "idle"
    /\ xout = None

\* a call of extract_phones
ExtractPhones ==
    /\ xpc = "call"
    /\ xin.kind = "phones"
    /\ xout' = extract_phones(xin.text)
    /\ xpc' = "returned"
    /\ UNCHANGED xin
    /\ UNCHANGED othersOfExtract

\* a call of extract_job_title
ExtractJobTitle ==
    /\ xpc = "call"
    /\ xin.kind = "title"
    /\ xout' = extract_job_title(xin.text)
    /\ xpc' = "returned"
    /\ UNCHANGED xin
    /\ UNCHANGED othersOfExtract

-----------------------------------------------------------------------------
(* Site crawler: data *)

\* URL strings.  A URL is its domain and path; `norm` tells whether the string
\* is spelled the way Url::to_string spells it (a seed may parse and still be
\* spelled otherwise, e.g. with an upper-case host or no trailing slash).
\* PathOrder lists the paths in the order Vec<String>::sort puts them.
PathOrder == <<"/", "/about", "/about-us", "/blog", "/contact">>
Paths == {PathOrder[k] : k \in DOMAIN PathOrder}
PathRank(p) == CHOOSE k \in DOMAIN PathOrder : PathOrder[k] = p

Url(d, p, n) == [domain |-> d, path |-> p, norm |-> n]
\* what joined_url.to_string() can yield from the hrefs of a page
LinkTargets == {Url("a.com", p, TRUE) : p \in Paths} \cup {Url("b.org", "/about", TRUE)}
Invalid == [domain |-> "", path |-> "", norm |-> FALSE]
Seeds == {Url("a.com", p, n) : p \in Paths, n \in BOOLEAN} \cup {Invalid}

\* Url::parse(start_url)
ParseOk(u) == u # Invalid

\* href_lower.contains("contact") || href_lower.contains("about")
HasKeyword(u) == u.path \in {"/about", "/about-us", "/contact"}

\* a.to_string() < b.to_string()
UrlLess(a, b) ==
    \/ a.domain = "a.com" /\ b.domain = "b.org"
    \/ a.domain = b.domain /\ PathRank(a.path) < PathRank(b.path)

\* the sorted, duplicate-free vector of a set of URLs
RECURSIVE Sorted(_)
Sorted(S) ==
    IF S = {} THEN <<>>
    ELSE LET m == CHOOSE x \in S : \A y \in S \ {x} : UrlLess(x, y)
         IN  <<m>> \o Sorted(S \ {m})

Take(s, n) == SubSeq(s, 1, IF Len(s) < n THEN Len(s) ELSE n)

\* discover_contact_links: hrefs are the anchors of the page, already joined
\* to the base URL
discover_contact_links(hrefs, base_url) ==
    Take(Sorted({u \in hrefs : HasKeyword(u) /\ u.domain = base_url.domain}), MaxLinks)

RECURSIVE SubsetsUpTo(_, _)
SubsetsUpTo(S, n) ==
    IF n = 0 THEN {{}}
    ELSE LET smaller == SubsetsUpTo(S, n - 1)
         IN  smaller \cup {T \cup {x} : T \in smaller, x \in S}

\* what a fetched page holds: the emails and phones the extractors find in
\* its whole text, the targets of its anchors, and the text lines of its
\* container elements, each with what the extractors find in that line; the
\* pages of this set have no container with a phone
Pages ==
    [emails : SUBSET {"e1"}, phones : SUBSET {"p1"},
     hrefs : SubsetsUpTo(LinkTargets, MaxHrefs), lines : {<<>>}]

\* the text lines of a container: the pieces extract_phones sees in the line
\* and what extract_name_candidate and extract_job_title return for it
DocLines ==
    {[text |-> <<>>, name |-> Some("Jane Doe"), title |-> None],
     [text |-> <<>>, name |-> None, title |-> Some("sales manager")],
     [text |-> <<>>, name |-> None, title |-> None],
     [text |-> <<PlainNo>>, name |-> None, title |-> None],
     [text |-> <<DashedNo>>, name |-> None, title |-> Some("manager")],
     [text |-> <<PlainNo, DashedNo>>, name |-> None, title |-> None]}

RECURSIVE Concat(_)
Concat(ss) == IF ss = <<>> THEN <<>> ELSE Head(ss) \o Concat(Tail(ss))

\* the page whose one container holds the lines of doc
PageOf(doc, hrefs) ==
    [emails |-> {},
     phones |-> extract_phones(Concat([k \in DOMAIN doc |-> doc[k].text])),
     hrefs  |-> hrefs,
     lines  |-> [k \in DOMAIN doc |->
                   [phones |-> extract_phones(doc[k].text), emails |-> {},
                    name |-> doc[k].name, title |-> doc[k].title]]]

TextPages ==
    {PageOf(doc, hrefs) : doc \in SeqsUpTo(DocLines, MaxLines),
                          hrefs \in {{}, {Url("a.com", "/contact", TRUE)}}}

\* HashSet::iter().next().cloned(): any element of the set, or None
AnyOf(S) == IF S = {} THEN {None} ELSE {Some(x) : x \in S}

\* lines 138-173: the Contacts line k of a container can give rise to (none
\* when neither a name nor a title is found on the line or above it)
ContactsOf(lines, k) ==
    LET line == lines[k]
        above == k > 1
        name_b == IF line.name = None /\ above THEN lines[k - 1].name ELSE line.name
        title_b == IF line.name = None /\ above /\ line.title = None
                   THEN lines[k - 1].title ELSE line.title
        name == IF name_b = None /\ k > 2 THEN lines[k - 2].name ELSE name_b
        title == IF title_b = None /\ above THEN lines[k - 1].title ELSE title_b
    IN  IF name # None \/ title # None
        THEN {[name |-> name, title |-> title, phone |-> ph, email |-> em] :
                 ph \in AnyOf(line.phones), em \in AnyOf(line.emails)}
        ELSE {}

\* a Contact pushed whether or not the list holds its phone and name
PushAlways(contacts, contact) == Append(contacts, contact)

\* lines 175-180
PushNew(contacts, contact) ==
    IF \E k \in DOMAIN contacts :
          contacts[k].phone = contact.phone /\ contacts[k].name = contact.name
    THEN contacts
    ELSE Append(contacts, contact)

RECURSIVE AddLines(_, _, _)
\* lines 133-183: the contact lists the lines from k on can leave
AddLines(contacts, lines, k) ==
    IF k > Len(lines) THEN {contacts}
    ELSE IF lines[k].phones = {} \/ ContactsOf(lines, k) = {}
    THEN AddLines(contacts, lines, k + 1)
    ELSE UNION {AddLines(PushNew(contacts, c), lines, k + 1) : c \in ContactsOf(lines, k)}

StatusCodes == {200, 404, 403, 429}

NoUrl == [domain |-> "", path |-> "", norm |-> TRUE]

\* ScrapingResult::default()
default_result ==
    [emails |-> {}, phones |-> {}, contacts |-> <<>>, status |-> "NoData",
     source_pages |-> <<>>]

RECURSIVE Filter(_, _)
\* the elements of s that are not in V, in order
Filter(s, V) ==
    IF s = <<>> THEN <<>>
    ELSE (IF Head(s) \in V THEN <<>> ELSE <<Head(s)>>) \o Filter(Tail(s), V)

-----------------------------------------------------------------------------
(* Site crawler: operations (scrape_site) *)

\* lines 78-94
CrawlStart ==
    /\ cpc = "start"
    /\ IF ParseOk(start_url)
       THEN /\ queue' = <<start_url>>
            /\ cpc' = "loop"
            /\ UNCHANGED result
       ELSE /\ result' = [result EXCEPT !.status = "Error"]
            /\ cpc' = "returned"
            /\ UNCHANGED queue
    /\ UNCHANGED <<start_url, visited, pages_visited, url_str, fetches>>
    /\ UNCHANGED othersOfCrawl

\* lines 96-109: pop the next URL; break at the page cap, skip a visited URL
Pop ==
    /\ cpc = "loop"
    /\ IF queue = <<>>
       THEN /\ cpc' = "classify"
            /\ UNCHANGED <<queue, url_str>>
       ELSE /\ queue' = Tail(queue)
            /\ url_str' = Head(queue)
            /\ cpc' = IF pages_visited >= max_pages THEN "classify"
                      ELSE IF Head(queue) \in visited THEN "loop"
                      ELSE "fetch"
    /\ UNCHANGED <<start_url, visited, pages_visited, result, fetches>>
    /\ UNCHANGED othersOfCrawl

\* a blocked page that marks the result and goes on with the queue
FetchBlockedContinues(code) ==
    /\ cpc = "fetch"
    /\ code \in {403, 429}
    /\ fetches' = Append(fetches, [url |-> url_str, ok |-> TRUE, code |-> code,
                                   emails |-> {}, phones |-> {}])
    /\ visited' = visited \cup {url_str}
    /\ pages_visited' = pages_visited + 1
    /\ result' = [result EXCEPT !.status = "Blocked"]
    /\ cpc' = "loop"
    /\ UNCHANGED <<start_url, queue, url_str>>
    /\ UNCHANGED othersOfCrawl

\* a blocked first page reported as a failed one
FetchBlockedAsError(code) ==
    /\ cpc = "fetch"
    /\ code \in {403, 429}
    /\ fetches' = Append(fetches, [url |-> url_str, ok |-> TRUE, code |-> code,
                                   emails |-> {}, phones |-> {}])
    /\ visited' = visited \cup {url_str}
    /\ pages_visited' = pages_visited + 1
    /\ result' = [result EXCEPT !.status = "Error"]
    /\ cpc' = "returned"
    /\ UNCHANGED <<start_url, queue, url_str>>
    /\ UNCHANGED othersOfCrawl

\* a blocked page that hands back an empty result
FetchBlockedClears(code) ==
    /\ cpc = "fetch"
    /\ code \in {403, 429}
    /\ fetches' = Append(fetches, [url |-> url_str, ok |-> TRUE, code |-> code,
                                   emails |-> {}, phones |-> {}])
    /\ visited' = visited \cup {url_str}
    /\ pages_visited' = pages_visited + 1
    /\ result' = [default_result EXCEPT !.status = "Blocked"]
    /\ cpc' = "returned"
    /\ UNCHANGED <<start_url, queue, url_str>>
    /\ UNCHANGED othersOfCrawl

\* lines 111-120: visit_page returns Ok with status 403 or 429
FetchBlocked(code) ==
    /\ cpc = "fetch"
    /\ code \in {403, 429}
    /\ fetches' = Append(fetches, [url |-> url_str, ok |-> TRUE, code |-> code,
                                   emails |-> {}, phones |-> {}])
    /\ visited' = visited \cup {url_str}
    /\ pages_visited' = pages_visited + 1
    /\ result' = [result EXCEPT !.status = "Blocked"]
    /\ cpc' = "returned"
    /\ UNCHANGED <<start_url, queue, url_str>>
    /\ UNCHANGED othersOfCrawl

\* a fetched page whose links are enqueued whichever page of the crawl it is
FetchOkDiscoversAlways(code, page) ==
    /\ cpc = "fetch"
    /\ code \notin {403, 429}
    /\ fetches' = Append(fetches, [url |-> url_str, ok |-> TRUE, code |-> code,
                                   emails |-> page.emails, phones |-> page.phones])
    /\ visited' = visited \cup {url_str}
    /\ pages_visited' = pages_visited + 1
    /\ \E contacts \in AddLines(result.contacts, page.lines, 1) :
         result' = [result EXCEPT
                    !.contacts = contacts,
                    !.source_pages = IF page.emails # {} \/ page.phones # {}
                                     THEN Append(@, url_str) ELSE @,
                    !.emails = @ \cup page.emails,
                    !.phones = @ \cup page.phones]
    /\ queue' = queue \o Filter(discover_contact_links(page.hrefs, start_url), visited')
    /\ cpc' = "loop"
    /\ UNCHANGED <<start_url, url_str>>
    /\ UNCHANGED othersOfCrawl

\* a fetched page recorded as a source only when it adds a value not yet collected
FetchOkRecordsNew(code, page) ==
    /\ cpc = "fetch"
    /\ code \notin {403, 429}
    /\ fetches' = Append(fetches, [url |-> url_str, ok |-> TRUE, code |-> code,
                                   emails |-> page.emails, phones |-> page.phones])
    /\ visited' = visited \cup {url_str}
    /\ pages_visited' = pages_visited + 1
    /\ \E contacts \in AddLines(result.contacts, page.lines, 1) :
         result' = [result EXCEPT
                    !.contacts = contacts,
                    !.source_pages = IF page.emails \ result.emails # {}
                                        \/ page.phones \ result.phones # {}
                                     THEN Append(@, url_str) ELSE @,
                    !.emails = @ \cup page.emails,
                    !.phones = @ \cup page.phones]
    /\ queue' = IF pages_visited' = 1
                THEN queue \o Filter(discover_contact_links(page.hrefs, start_url), visited')
                ELSE queue
    /\ cpc' = "loop"
    /\ UNCHANGED <<start_url, url_str>>
    /\ UNCHANGED othersOfCrawl

\* a fetched page that is not entered into the visited set
FetchOkNoInsert(code, page) ==
    /\ cpc = "fetch"
    /\ code \notin {403, 429}
    /\ fetches' = Append(fetches, [url |-> url_str, ok |-> TRUE, code |-> code,
                                   emails |-> page.emails, phones |-> page.phones])
    /\ pages_visited' = pages_visited + 1
    /\ \E contacts \in AddLines(result.contacts, page.lines, 1) :
         result' = [result EXCEPT
                    !.contacts = contacts,
                    !.source_pages = IF page.emails # {} \/ page.phones # {}
                                     THEN Append(@, url_str) ELSE @,
                    !.emails = @ \cup page.emails,
                    !.phones = @ \cup page.phones]
    /\ queue' = IF pages_visited' = 1
                THEN queue \o Filter(discover_contact_links(page.hrefs, start_url), visited)
                ELSE queue
    /\ cpc' = "loop"
    /\ UNCHANGED <<start_url, url_str, visited>>
    /\ UNCHANGED othersOfCrawl

\* lines 111-206: visit_page returns Ok with another status
FetchOk(code, page) ==
    /\ cpc = "fetch"
    /\ code \notin {403, 429}
    /\ fetches' = Append(fetches, [url |-> url_str, ok |-> TRUE, code |-> code,
                                   emails |-> page.emails, phones |-> page.phones])
    /\ visited' = visited \cup {url_str}
    /\ pages_visited' = pages_visited + 1
    /\ \E contacts \in AddLines(result.contacts, page.lines, 1) :
         result' = [result EXCEPT
                    !.contacts = contacts,
                    !.source_pages = IF page.emails # {} \/ page.phones # {}
                                     THEN Append(@, url_str) ELSE @,
                    !.emails = @ \cup page.emails,
                    !.phones = @ \cup page.phones]
    /\ queue' = IF pages_visited' = 1
                THEN queue \o Filter(discover_contact_links(page.hrefs, start_url), visited')
                ELSE queue
    /\ cpc' = "loop"
    /\ UNCHANGED <<start_url, url_str>>
    /\ UNCHANGED othersOfCrawl

\* a transport failure that ends the crawl whatever page it hits
FetchErrAlwaysFatal ==
    /\ cpc = "fetch"
    /\ fetches' = Append(fetches, [url |-> url_str, ok |-> FALSE, code |-> 0,
                                   emails |-> {}, phones |-> {}])
    /\ result' = [result EXCEPT !.status = "Error"]
    /\ cpc' = "returned"
    /\ UNCHANGED <<start_url, visited, queue, pages_visited, url_str>>
    /\ UNCHANGED othersOfCrawl

\* lines 207-214: visit_page returns Err
FetchErr ==
    /\ cpc = "fetch"
    /\ fetches' = Append(fetches, [url |-> url_str, ok |-> FALSE, code |-> 0,
                                   emails |-> {}, phones |-> {}])
    /\ IF pages_visited = 0
       THEN /\ result' = [result EXCEPT !.status = "Error"]
            /\ cpc' = "returned"
       ELSE /\ cpc' = "loop"
            /\ UNCHANGED result
    /\ UNCHANGED <<start_url, visited, queue, pages_visited, url_str>>
    /\ UNCHANGED othersOfCrawl

\* a classification that looks at the email set only
ClassifyEmailsOnly ==
    /\ cpc = "classify"
    /\ result' = [result EXCEPT !.status =
                    IF result.emails # {} THEN "Success"
                    ELSE IF @ # "Blocked" /\ @ # "Error" THEN "NoData"
                    ELSE @]
    /\ cpc' = "returned"
    /\ UNCHANGED <<start_url, visited, queue, pages_visited, url_str, fetches>>
    /\ UNCHANGED othersOfCrawl

\* lines 218-224
Classify ==
    /\ cpc = "classify"
    /\ result' = [result EXCEPT !.status =
                    IF result.emails # {} \/ result.phones # {} THEN "Success"
                    ELSE IF @ # "Blocked" /\ @ # "Error" THEN "NoData"
                    ELSE @]
    /\ cpc' = "returned"
    /\ UNCHANGED <<start_url, visited, queue, pages_visited, url_str, fetches>>
    /\ UNCHANGED othersOfCrawl

-----------------------------------------------------------------------------
(* The crawl as run_scraper calls it *)

\* the URLs run_scraper may hold for an item: one that parses and one that does not
SiteUrls == {Url("a.com", "/", TRUE), Invalid}

\* the pages of such a site: at most one text line, with or without a phone
\* and a title, with or without an email elsewhere on the page, and at most
\* one link
SitePages ==
    {[PageOf(doc, hrefs) EXCEPT !.emails = emails] :
        doc \in SeqsUpTo(DocLines, 1),
        hrefs \in {{}, {Url("a.com", "/contact", TRUE)}},
        emails \in {{}, {"e1"}}}

\* line 201: scrape_site is entered with the URL of the item
CrawlCall(j) ==
    /\ pc[j] = "scrape"
    /\ cpc = "idle"
    /\ start_url' \in SiteUrls
    /\ cpc' = "start"
    /\ visited' = {}
    /\ queue' = <<>>
    /\ pages_visited' = 0
    /\ url_str' = NoUrl
    /\ result' = default_result
    /\ fetches' = <<>>
    /\ UNCHANGED othersOfCrawl

\* lines 201-222: scrape_site returns its result to the iteration
ScrapeSite(j) ==
    /\ pc[j] = "scrape"
    /\ cpc = "returned"
    /\ cur' = [cur EXCEPT ![j] = Scraped(@, result)]
    /\ pc' = [pc EXCEPT ![j] = "found"]
    /\ cpc' = "idle"
    /\ UNCHANGED <<jobs, records, i, out, ret, waited, stop_status, pause_items, site_delays>>
    /\ UNCHANGED <<start_url, visited, queue, pages_visited, url_str, result, fetches>>
    /\ UNCHANGED <<lockVars, batchVars, extractVars>>

-----------------------------------------------------------------------------
(* The job-table mutex: where each thread takes it, drops it and does I/O *)

\* the HTTP handlers of server.rs that reach the job table
Handlers == {"upload", "control", "status"}
\* the threads that use the mutex: one run_scraper thread per job, the handlers
LockThreads == JobIds \cup Handlers

\* One program point: its label, its kind and the points that can follow it.
\*   acquire  jobs.lock(): the thread waits for the mutex and takes it
\*   held     inside the scope of the guard; leaving the point drops the guard
\*   io       a fetch, a resolver call, a sleep or delay, a file operation
\*   local    thread-local work without the guard
\*   rest     not running (not spawned, returned, handler not called)
Pt(label, kind, next) == [label |-> label, kind |-> kind, next |-> next]

\* a call of the update_status closure (lines 86-99) from the site `site`
UpdateStatusCall(lock, in, next) ==
    {Pt(lock, "acquire", {in}), Pt(in, "held", next)}

\* run_scraper, lines 85-274
RunFlow ==
    {Pt("unspawned", "rest", {}),
     Pt("load102", "io", {"lock106"}),
     Pt("lock106", "acquire", {"in106"}),
     Pt("in106", "held", {"open117"}),
     Pt("open117", "io", {"failed120", "header138"}),
     Pt("header138", "io", {"lock148", "completed273"}),
     Pt("lock148", "acquire", {"in148"}),
     Pt("in148", "held", {"exited", "sleep167", "lock174"}),
     Pt("sleep167", "io", {"lock148"}),
     Pt("lock174", "acquire", {"in174"}),
     Pt("in174", "held", {"searching185", "scraping199"}),
     Pt("search186", "io", {"scraping199", "notfound225"}),
     Pt("scrape201", "io", {"found230", "write260"}),
     Pt("write260", "io", {"flush261"}),
     Pt("flush261", "io", {"delay269", "completed273"}),
     Pt("delay269", "io", {"lock148"}),
     Pt("exited", "rest", {})}
    \cup UpdateStatusCall("failed120", "in_failed120", {"exited"})
    \cup UpdateStatusCall("searching185", "in_searching185", {"search186"})
    \cup UpdateStatusCall("scraping199", "in_scraping199", {"scrape201"})
    \cup UpdateStatusCall("notfound225", "in_notfound225", {"write260"})
    \cup UpdateStatusCall("found230", "in_found230", {"write260"})
    \cup UpdateStatusCall("completed273", "in_completed273", {"exited"})

\* upload_file (server.rs 22-82): save the upload, start_job (job_manager.rs
\* 54: the guard is a temporary of the insert statement), spawn the thread
UploadFlow ==
    {Pt("idle", "rest", {"save65"}),
     Pt("save65", "io", {"lock54"}),
     Pt("lock54", "acquire", {"in54"}),
     Pt("in54", "held", {"spawn59"}),
     Pt("spawn59", "local", {"idle"})}

\* pause_job / resume_job / stop_job calling send_control (job_manager.rs 66-83)
ControlFlow ==
    {Pt("idle", "rest", {"lock67"}),
     Pt("lock67", "acquire", {"in67"}),
     Pt("in67", "held", {"idle"})}

\* get_status (server.rs 83-93): the guard lives until the handler returns the
\* response it built from the record
StatusFlow ==
    {Pt("idle", "rest", {"lock86"}),
     Pt("lock86", "acquire", {"in86"}),
     Pt("in86", "held", {"idle"})}

Flow(t) ==
    CASE t = "upload"  -> UploadFlow
      [] t = "control" -> ControlFlow
      [] t = "status"  -> StatusFlow
      [] OTHER         -> RunFlow

Point(t) == CHOOSE q \in Flow(t) : q.label = at[t]
Kind(t) == Point(t).kind

LockIdle ==
    /\ guard = "none"
    /\ at = [t \in LockThreads |-> IF t \in Handlers THEN "idle" ELSE "unspawned"]

\* a handler is called; an upload is taken while a job id is left to start
Call(t) ==
    /\ t \in Handlers
    /\ at[t] = "idle"
    /\ t = "upload" => \E j \in JobIds : at[j] = "unspawned"
    /\ \E q \in Point(t).next : at' = [at EXCEPT ![t] = q]
    /\ UNCHANGED guard
    /\ UNCHANGED othersOfLock

\* jobs.lock().unwrap(): blocks until no thread holds the guard
Acquire(t) ==
    /\ Kind(t) = "acquire"
    /\ guard = "none"
    /\ guard' = t
    /\ \E q \in Point(t).next : at' = [at EXCEPT ![t] = q]
    /\ UNCHANGED othersOfLock

\* a guard that stays alive while the control loop sleeps
LeaveHoldsWhileWaiting(t) ==
    /\ Kind(t) = "held"
    /\ \E q \in Point(t).next :
          /\ at' = [at EXCEPT ![t] = q]
          /\ guard' = IF q = "sleep167" THEN guard ELSE "none"
    /\ UNCHANGED othersOfLock

\* the end of the guard's scope (block end, statement end or return)
Leave(t) ==
    /\ Kind(t) = "held"
    /\ guard' = "none"
    /\ \E q \in Point(t).next : at' = [at EXCEPT ![t] = q]
    /\ UNCHANGED othersOfLock

\* a fetch, resolver call, sleep, delay or file operation of the thread
Io(t) ==
    /\ Kind(t) = "io"
    /\ \E q \in Point(t).next : at' = [at EXCEPT ![t] = q]
    /\ UNCHANGED guard
    /\ UNCHANGED othersOfLock

\* thread::spawn (job_manager.rs 59-61): the new job's thread starts to run
Spawn(j) ==
    /\ at["upload"] = "spawn59"
    /\ at[j] = "unspawned"
    /\ at' = [at EXCEPT !["upload"] = "idle", ![j] = "load102"]
    /\ UNCHANGED guard
    /\ UNCHANGED othersOfLock

-----------------------------------------------------------------------------
(* Batch mode: main.rs with the progress ledger of resume_manager.rs *)

\* The company column of an input record, as read: a name, the same name with
\* surrounding blanks, another name.  unique_id = record.company.trim().
RawNames == {"a", " a", "b"}
Trim(name) == IF name = " a" THEN "a" ELSE name
Ids == {Trim(name) : name \in RawNames}
IdOrder == <<"a", "b">>
Inputs == SeqsUpTo(RawNames, MaxItems)

\* The file progress.json: absent, present with no byte (just truncated),
\* present with text that is no ProgressState, or the JSON text of a ledger.
FileMissing == [state |-> "missing", ids |-> <<>>]
FileEmpty   == [state |-> "empty", ids |-> <<>>]
FileGarbage == [state |-> "garbage", ids |-> <<>>]
InSet(S, x) == x \in S
\* serde_json::to_string_pretty(self): the identifiers as a JSON array
Serialize(S) == [state |-> "json", ids |-> SelectSeq(IdOrder, LAMBDA x : InSet(S, x))]
\* serde_json::from_str::<ProgressState>: Ok exactly on the JSON text of a ledger
ParseOkJson(f) == f.state = "json"
Parse(f) == {f.ids[n] : n \in DOMAIN f.ids}

NoHist ==
    [start |-> {}, load |-> "none", processed |-> {}, marked |-> {},
     saved |-> FALSE, durable |-> {}, crashed |-> FALSE, io_failed |-> FALSE,
     delays |-> 0]

BatchIdle ==
    /\ mpc = "idle"
    /\ m_records = <<>>
    /\ m_i = 0
    /\ m_count = 0
    /\ progress = {}
    /\ progress_json = FileMissing
    /\ results_csv = <<>>
    /\ csv_writer = <<>>
    /\ hist = NoHist

\* the rows an earlier run left for the identifiers of its ledger
RowsFor(f) == [n \in DOMAIN f.ids |-> [company |-> f.ids[n]]]

\* main, lines 20-27: load the records, return when there is none
MainStart ==
    /\ mpc = "main"
    /\ mpc' = IF m_records = <<>> THEN "done" ELSE "load"
    /\ UNCHANGED <<m_records, m_i, m_count, progress, progress_json,
                   results_csv, csv_writer, hist>>
    /\ UNCHANGED othersOfBatch

\* what ProgressState::load finds, lines 17-43
LoadOutcome(f, readable) ==
    IF f.state = "missing" THEN "missing"
    ELSE IF ~readable THEN "unreadable"
    ELSE IF ~ParseOkJson(f) THEN "malformed"
    ELSE "json"

\* a load that gives up the run on a ledger file it cannot parse
LoadAbortsOnMalformed(readable) ==
    /\ mpc = "load"
    /\ LET outcome == LoadOutcome(progress_json, readable)
       IN  /\ progress' = IF outcome = "json" THEN Parse(progress_json) ELSE {}
           /\ hist' = [hist EXCEPT !.start = progress', !.load = outcome,
                                   !.saved = (outcome = "json"),
                                   !.io_failed = @ \/ outcome = "unreadable"]
           /\ mpc' = IF outcome = "malformed" THEN "aborted" ELSE "open"
    /\ UNCHANGED <<m_records, m_i, m_count, progress_json, results_csv, csv_writer>>
    /\ UNCHANGED othersOfBatch

\* main line 30, ProgressState::load: `readable` is whether open and
\* read_to_string succeed on an existing file
Load(readable) ==
    /\ mpc = "load"
    /\ LET outcome == LoadOutcome(progress_json, readable)
       IN  /\ progress' = IF outcome = "json" THEN Parse(progress_json) ELSE {}
           /\ hist' = [hist EXCEPT !.start = progress', !.load = outcome,
                                   !.saved = (outcome = "json"),
                                   !.io_failed = @ \/ outcome = "unreadable"]
    /\ mpc' = "open"
    /\ UNCHANGED <<m_records, m_i, m_count, progress_json, results_csv, csv_writer>>
    /\ UNCHANGED othersOfBatch

\* main, lines 36-51: open the output file for append, header for a new file
OpenResults ==
    /\ mpc = "open"
    /\ mpc' = "loop"
    /\ UNCHANGED <<m_records, m_i, m_count, progress, progress_json,
                   results_csv, csv_writer, hist>>
    /\ UNCHANGED othersOfBatch

\* the `?` of line 42: main returns the error
OpenResultsFails ==
    /\ mpc = "open"
    /\ mpc' = "aborted"
    /\ hist' = [hist EXCEPT !.io_failed = TRUE]
    /\ UNCHANGED <<m_records, m_i, m_count, progress, progress_json,
                   results_csv, csv_writer>>
    /\ UNCHANGED othersOfBatch

\* a loop head that looks the company up as read, without the trim
LoopHeadNoTrim ==
    /\ mpc = "loop"
    /\ IF m_i = Len(m_records)
       THEN /\ mpc' = "done"
            /\ UNCHANGED <<m_i, m_count, hist>>
       ELSE IF m_records[m_i + 1] \in progress
       THEN /\ m_i' = m_i + 1
            /\ UNCHANGED <<mpc, m_count, hist>>
       ELSE /\ m_count' = m_count + 1
            /\ hist' = [hist EXCEPT !.processed = @ \cup {m_i + 1}]
            /\ mpc' = IF m_count' > 1 THEN "delay" ELSE "resolve"
            /\ UNCHANGED m_i
    /\ UNCHANGED <<m_records, progress, progress_json, results_csv, csv_writer>>
    /\ UNCHANGED othersOfBatch

\* main, lines 56-65: end of the loop, skip of an item of the ledger, or the
\* start of an item
LoopHead ==
    /\ mpc = "loop"
    /\ IF m_i = Len(m_records)
       THEN /\ mpc' = "done"
            /\ UNCHANGED <<m_i, m_count, hist>>
       ELSE IF Trim(m_records[m_i + 1]) \in progress
       THEN /\ m_i' = m_i + 1
            /\ UNCHANGED <<mpc, m_count, hist>>
       ELSE /\ m_count' = m_count + 1
            /\ hist' = [hist EXCEPT !.processed = @ \cup {m_i + 1}]
            /\ mpc' = IF m_count' > 1 THEN "delay" ELSE "resolve"
            /\ UNCHANGED m_i
    /\ UNCHANGED <<m_records, progress, progress_json, results_csv, csv_writer>>
    /\ UNCHANGED othersOfBatch

\* main, lines 68-70
MainDelay ==
    /\ mpc = "delay"
    /\ mpc' = "resolve"
    /\ hist' = [hist EXCEPT !.delays = @ + 1]
    /\ UNCHANGED <<m_records, m_i, m_count, progress, progress_json,
                   results_csv, csv_writer>>
    /\ UNCHANGED othersOfBatch

\* main, lines 73-104: resolve the website and scrape it
Process ==
    /\ mpc = "resolve"
    /\ mpc' = "write"
    /\ UNCHANGED <<m_records, m_i, m_count, progress, progress_json,
                   results_csv, csv_writer, hist>>
    /\ UNCHANGED othersOfBatch

\* main, lines 108-119: write_record; an error is logged and the run goes on
WriteRecord(ok) ==
    /\ mpc = "write"
    /\ csv_writer' = IF ok
                     THEN Append(csv_writer, [company |-> m_records[m_i + 1]])
                     ELSE csv_writer
    /\ hist' = [hist EXCEPT !.io_failed = @ \/ ~ok]
    /\ mpc' = "flush"
    /\ UNCHANGED <<m_records, m_i, m_count, progress, progress_json, results_csv>>
    /\ UNCHANGED othersOfBatch

\* main, line 120: csv_writer.flush()?
Flush(ok) ==
    /\ mpc = "flush"
    /\ IF ok
       THEN /\ results_csv' = results_csv \o csv_writer
            /\ csv_writer' = <<>>
            /\ mpc' = "mark"
            /\ UNCHANGED hist
       ELSE /\ mpc' = "aborted"
            /\ hist' = [hist EXCEPT !.io_failed = TRUE]
            /\ UNCHANGED <<results_csv, csv_writer>>
    /\ UNCHANGED <<m_records, m_i, m_count, progress, progress_json>>
    /\ UNCHANGED othersOfBatch

\* a mark_complete that saves the ledger without the insert
MarkSaveOnly ==
    /\ mpc = "mark"
    /\ hist' = [hist EXCEPT !.marked = @ \cup {Trim(m_records[m_i + 1])}]
    /\ mpc' = "save"
    /\ UNCHANGED <<m_records, m_i, m_count, progress, progress_json, results_csv, csv_writer>>
    /\ UNCHANGED othersOfBatch

\* mark_complete, line 47: the insert
MarkInsert ==
    /\ mpc = "mark"
    /\ progress' = progress \cup {Trim(m_records[m_i + 1])}
    /\ hist' = [hist EXCEPT !.marked = @ \cup {Trim(m_records[m_i + 1])}]
    /\ mpc' = "save"
    /\ UNCHANGED <<m_records, m_i, m_count, progress_json, results_csv, csv_writer>>
    /\ UNCHANGED othersOfBatch

\* save, lines 56-74: serialize, open progress.json with truncate; on an error
\* save returns and the loop goes on
SaveOpen(ok) ==
    /\ mpc = "save"
    /\ IF ok
       THEN /\ progress_json' = FileEmpty
            /\ mpc' = "save_write"
            /\ UNCHANGED <<m_i, hist>>
       ELSE /\ m_i' = m_i + 1
            /\ mpc' = "loop"
            /\ hist' = [hist EXCEPT !.saved = FALSE, !.io_failed = TRUE]
            /\ UNCHANGED progress_json
    /\ UNCHANGED <<m_records, m_count, progress, results_csv, csv_writer>>
    /\ UNCHANGED othersOfBatch

\* save, lines 76-78: write_all; an error leaves the file short
SaveWrite(ok) ==
    /\ mpc = "save_write"
    /\ IF ok
       THEN /\ progress_json' = Serialize(progress)
            /\ hist' = [hist EXCEPT !.saved = TRUE, !.durable = progress]
       ELSE /\ progress_json' \in {FileEmpty, FileGarbage}
            /\ hist' = [hist EXCEPT !.saved = FALSE, !.io_failed = TRUE]
    /\ m_i' = m_i + 1
    /\ mpc' = "loop"
    /\ UNCHANGED <<m_records, m_count, progress, results_csv, csv_writer>>
    /\ UNCHANGED othersOfBatch

Running == {"main", "load", "open", "loop", "delay", "resolve", "write", "flush",
            "mark", "save", "save_write"}

\* the process dies (once in a behaviour): its memory is gone, the files stay
\* as they are
Crash ==
    /\ mpc \in Running
    /\ ~hist.crashed
    /\ mpc' = "crashed"
    /\ m_i' = 0
    /\ m_count' = 0
    /\ progress' = {}
    /\ csv_writer' = <<>>
    /\ hist' = [hist EXCEPT !.crashed = TRUE, !.load = "none", !.delays = 0]
    /\ UNCHANGED <<m_records, progress_json, results_csv>>
    /\ UNCHANGED othersOfBatch

\* the process is launched again on the same input
Restart ==
    /\ mpc = "crashed"
    /\ mpc' = "main"
    /\ hist' = [hist EXCEPT !.start = {}, !.load = "none", !.processed = {},
                            !.marked = {}, !.saved = FALSE]
    /\ UNCHANGED <<m_records, m_i, m_count, progress, progress_json,
                   results_csv, csv_writer>>
    /\ UNCHANGED othersOfBatch

-----------------------------------------------------------------------------
(* Specifications *)

\* the one job the controller specification starts; "j2" stays unknown to the table
Started == {"j1"}

JobInit ==
    /\ jobs = <<>>
    /\ pc = [j \in JobIds |-> "none"]
    /\ records = [j \in JobIds |-> <<>>]
    /\ i = [j \in JobIds |-> 0]
    /\ cur = [j \in JobIds |-> NoCur]
    /\ out = [j \in JobIds |-> [header |-> FALSE, rows |-> <<>>]]
    /\ ret = FALSE
    /\ waited = [j \in JobIds |-> FALSE]
    /\ stop_status = [j \in JobIds |-> ""]
    /\ pause_items = [j \in JobIds |-> -1]
    /\ site_delays = [j \in JobIds |-> 0]

CrawlIdle ==
    /\ start_url = NoUrl
    /\ cpc = "idle"
    /\ visited = {}
    /\ queue = <<>>
    /\ pages_visited = 0
    /\ url_str = NoUrl
    /\ result = default_result
    /\ fetches = <<>>

Init == JobInit /\ CrawlIdle /\ LockIdle /\ BatchIdle /\ ExtractIdle

Thread(j) ==
    \/ \E recs \in RecordLists : LoadRecords(j, recs)
    \/ OpenOutput(j)
    \/ OpenOutputFails(j)
    \/ ControlCheck(j)
    \/ PauseSleep(j)
    \/ SetProcessed(j)
    \/ Target(j)
    \/ \E found \in BOOLEAN : Search(j, found)
    \/ Announce(j)
    \/ \E res \in ScrapeResults : Scrape(j, res)
    \/ NotFound(j)
    \/ Found(j)
    \/ WriteRow(j)
    \/ SiteDelay(j)
    \/ Finish(j)

Control == \E id \in JobIds, signal \in Signals : send_control(id, signal)

Next ==
    \/ \E j \in Started : StartJob(j)
    \/ \E j \in Started : Thread(j)
    \/ Control

Spec == Init /\ [][Next]_vars

\* one scrape_site call
CrawlInit ==
    /\ JobInit
    /\ LockIdle
    /\ BatchIdle
    /\ ExtractIdle
    /\ start_url \in Seeds
    /\ cpc = "start"
    /\ visited = {}
    /\ queue = <<>>
    /\ pages_visited = 0
    /\ url_str = NoUrl
    /\ result = default_result
    /\ fetches = <<>>

CrawlNext ==
    \/ CrawlStart
    \/ Pop
    \/ \E code \in StatusCodes : FetchBlocked(code)
    \/ \E code \in StatusCodes, page \in Pages : FetchOk(code, page)
    \/ FetchErr
    \/ Classify

SpecCrawl == CrawlInit /\ [][CrawlNext]_vars

\* one scrape_site call on a site whose pages answer 200 and hold text lines
\* with phones, names and titles
TextInit ==
    /\ JobInit
    /\ LockIdle
    /\ BatchIdle
    /\ ExtractIdle
    /\ start_url = Url("a.com", "/", TRUE)
    /\ cpc = "start"
    /\ visited = {}
    /\ queue = <<>>
    /\ pages_visited = 0
    /\ url_str = NoUrl
    /\ result = default_result
    /\ fetches = <<>>

TextNext ==
    \/ CrawlStart
    \/ Pop
    \/ \E page \in TextPages : FetchOk(200, page)
    \/ Classify

SpecText == TextInit /\ [][TextNext]_vars

\* one job of one record, run from upload to exit with the crawl of its site
\* inside the iteration, and no control signal
SiteLists == {recs \in RecordLists : Len(recs) = 1}

SiteThread(j) ==
    \/ \E recs \in SiteLists : LoadRecords(j, recs)
    \/ OpenOutput(j)
    \/ ControlCheck(j)
    \/ SetProcessed(j)
    \/ Target(j)
    \/ \E found \in BOOLEAN : Search(j, found)
    \/ Announce(j)
    \/ CrawlCall(j)
    \/ ScrapeSite(j)
    \/ NotFound(j)
    \/ Found(j)
    \/ WriteRow(j)
    \/ Finish(j)

SiteCrawl ==
    \/ CrawlStart
    \/ Pop
    \/ \E code \in StatusCodes : FetchBlocked(code)
    \/ \E code \in StatusCodes, page \in SitePages : FetchOk(code, page)
    \/ FetchErr
    \/ Classify

SiteNext ==
    \/ StartJob("j1")
    \/ SiteThread("j1")
    \/ SiteCrawl

SpecSite == Init /\ [][SiteNext]_vars

\* the controller under the fairness the operating system gives a spawned
\* thread: a job thread that can take a step eventually takes one; the crawl
\* of an item returns NoData or Success with an email
FairResults == {r \in ScrapeResults : r.phones = {} /\ r.status \in {"NoData", "Success"}}

FairThread(j) ==
    \/ \E recs \in RecordLists : LoadRecords(j, recs)
    \/ OpenOutput(j)
    \/ OpenOutputFails(j)
    \/ ControlCheck(j)
    \/ PauseSleep(j)
    \/ SetProcessed(j)
    \/ Target(j)
    \/ \E found \in BOOLEAN : Search(j, found)
    \/ Announce(j)
    \/ \E res \in FairResults : Scrape(j, res)
    \/ NotFound(j)
    \/ Found(j)
    \/ WriteRow(j)
    \/ SiteDelay(j)
    \/ Finish(j)

FairNext ==
    \/ \E j \in Started : StartJob(j)
    \/ \E j \in Started : FairThread(j)
    \/ Control

FairSpec == Init /\ [][FairNext]_vars /\ \A j \in Started : WF_vars(FairThread(j))

\* one job of LogRecords records without website, each resolved by the search
\* and yielding data, so that every record pushes three log lines
LogList == [k \in 1..LogRecords |-> "blank"]
LogResult == [status |-> "Success", emails |-> {"e1"}, phones |-> {},
              contacts |-> <<>>, source_pages |-> <<"u1">>]

LogNext ==
    \/ StartJob("j1")
    \/ LoadRecords("j1", LogList)
    \/ OpenOutput("j1")
    \/ ControlCheck("j1")
    \/ SetProcessed("j1")
    \/ Target("j1")
    \/ Search("j1", TRUE)
    \/ Announce("j1")
    \/ Scrape("j1", LogResult)
    \/ Found("j1")
    \/ WriteRow("j1")
    \/ SiteDelay("j1")
    \/ Finish("j1")
    \/ send_control("j1", "stop")

SpecLog == Init /\ [][LogNext]_vars

\* several jobs at once: every job id may be started, each with its own thread;
\* the inputs are the record lists of at most one record, with its website
\* given (no search and no delay between records is made), and the scrape
\* results Success with an email and Error
MultiLists == {recs \in RecordLists : Len(recs) <= 1 /\ \A n \in DOMAIN recs : recs[n] = "given"}
MultiResults == {r \in ScrapeResults : r.phones = {} /\ r.status \in {"Success", "Error"}
                                        /\ (r.status = "Success" => r.emails # {})}

MultiThread(j) ==
    \/ \E recs \in MultiLists : LoadRecords(j, recs)
    \/ OpenOutput(j)
    \/ OpenOutputFails(j)
    \/ ControlCheck(j)
    \/ PauseSleep(j)
    \/ SetProcessed(j)
    \/ Target(j)
    \/ Announce(j)
    \/ \E res \in MultiResults : Scrape(j, res)
    \/ Found(j)
    \/ WriteRow(j)
    \/ Finish(j)

MultiNext ==
    \/ \E j \in JobIds : StartJob(j)
    \/ \E j \in JobIds : MultiThread(j)
    \/ Control

SpecMulti == Init /\ [][MultiNext]_vars

\* the threads and handlers contending for the job-table mutex
LockNext ==
    \/ \E t \in Handlers : Call(t)
    \/ \E t \in LockThreads : Acquire(t)
    \/ \E t \in LockThreads : Leave(t)
    \/ \E t \in LockThreads : Io(t)
    \/ \E j \in JobIds : Spawn(j)

SpecLock == Init /\ [][LockNext]_vars

\* the process is launched on an input file, with the ledger file and the
\* output file as an earlier run (or none) left them
BatchInit ==
    /\ JobInit
    /\ CrawlIdle
    /\ LockIdle
    /\ ExtractIdle
    /\ mpc = "main"
    /\ m_records \in Inputs
    /\ m_i = 0
    /\ m_count = 0
    /\ progress = {}
    /\ progress_json \in {FileMissing, FileEmpty, FileGarbage} \cup {Serialize(S) : S \in SUBSET Ids}
    /\ results_csv = RowsFor(progress_json)
    /\ csv_writer = <<>>
    /\ hist = [NoHist EXCEPT !.durable = Parse(progress_json)]

\* one batch run, with at most one crash and relaunch
BatchNext ==
    \/ MainStart
    \/ \E readable \in BOOLEAN : Load(readable)
    \/ OpenResults
    \/ OpenResultsFails
    \/ LoopHead
    \/ MainDelay
    \/ Process
    \/ \E ok \in BOOLEAN : WriteRecord(ok)
    \/ \E ok \in BOOLEAN : Flush(ok)
    \/ MarkInsert
    \/ \E ok \in BOOLEAN : SaveOpen(ok)
    \/ \E ok \in BOOLEAN : SaveWrite(ok)
    \/ Crash
    \/ Restart

SpecBatch == BatchInit /\ [][BatchNext]_vars

\* one call of an Extractor function on a text
ExtractInit ==
    /\ JobInit
    /\ CrawlIdle
    /\ LockIdle
    /\ BatchIdle
    /\ xin \in [kind : {"phones"}, text : PhoneTexts] \cup [kind : {"title"}, text : TitleTexts]
    /\ xpc = "call"
    /\ xout = None

ExtractNext ==
    \/ ExtractPhones
    \/ ExtractJobTitle

SpecExtract == ExtractInit /\ [][ExtractNext]_vars

\* the two ways the program runs: the server with one job and its controller,
\* or the batch process on an input file (not killed); every crawl returns NoData
DelayInit ==
    \/ Init
    \/ BatchInit

\* the upload handler starts a job; the batch process has no such handler
ServerStart(j) ==
    /\ mpc = "idle"
    /\ StartJob(j)

DelayResults == {r \in ScrapeResults : r.status = "NoData"}

DelayThread(j) ==
    \/ \E recs \in RecordLists : LoadRecords(j, recs)
    \/ OpenOutput(j)
    \/ OpenOutputFails(j)
    \/ ControlCheck(j)
    \/ PauseSleep(j)
    \/ SetProcessed(j)
    \/ Target(j)
    \/ \E found \in BOOLEAN : Search(j, found)
    \/ Announce(j)
    \/ \E res \in DelayResults : Scrape(j, res)
    \/ NotFound(j)
    \/ Found(j)
    \/ WriteRow(j)
    \/ SiteDelay(j)
    \/ Finish(j)

DelayNext ==
    \/ \E j \in Started : ServerStart(j)
    \/ \E j \in Started : DelayThread(j)
    \/ \E j \in Started, signal \in Signals : send_control(j, signal)
    \/ MainStart
    \/ \E readable \in BOOLEAN : Load(readable)
    \/ OpenResults
    \/ OpenResultsFails
    \/ LoopHead
    \/ MainDelay
    \/ Process
    \/ \E ok \in BOOLEAN : WriteRecord(ok)
    \/ \E ok \in BOOLEAN : Flush(ok)
    \/ MarkInsert
    \/ \E ok \in BOOLEAN : SaveOpen(ok)
    \/ \E ok \in BOOLEAN : SaveWrite(ok)

SpecDelay == DelayInit /\ [][DelayNext]_vars

-----------------------------------------------------------------------------
(* Properties *)

Known == DOMAIN jobs
Rows(j) == out[j].rows
OkFetches == {k \in DOMAIN fetches : fetches[k].ok}

\* the number of records that have passed their control check
ItemsStarted(j) == jobs[j].processed_count + (IF pc[j] = "count" THEN 1 ELSE 0)

\* C1: one scrape_site call visits at most 3 pages and never fetches a URL
\* that is already in its visited set (no URL fetched once is fetched again).
C1_PageCapNoRevisit ==
    /\ pages_visited <= max_pages
    /\ Cardinality(OkFetches) <= max_pages
    /\ Cardinality(visited) <= max_pages
    /\ cpc = "fetch" => url_str \notin visited
    /\ \A a \in OkFetches : fetches[a].url \in visited
    /\ \A a \in OkFetches, b \in DOMAIN fetches : a < b => fetches[b].url # fetches[a].url

C1_Witness ==
    /\ cpc = "returned"
    /\ pages_visited = max_pages
    /\ Len(fetches) = max_pages

\* C2: as soon as a fetched page, the first or a later one, returns 403 or
\* 429 the crawl returns with outcome Blocked and fetches nothing more, even
\* with links still queued.
C2_BlockedEndsCrawl ==
    \A k \in DOMAIN fetches :
        fetches[k].code \in {403, 429} =>
            /\ k = Len(fetches)
            /\ cpc = "returned"
            /\ result.status = "Blocked"

C2_Witness ==
    /\ Len(fetches) >= 2
    /\ fetches[Len(fetches)].code \in {403, 429}
    /\ queue # <<>>
    /\ cpc = "returned"

C4_PausedHolds ==
    /\ [](\A j \in Known : jobs[j].status = "paused" => pc[j] \in {"sleep", "check"})
    /\ [][\A j \in Known :
            jobs[j].status = "paused" =>
                /\ jobs'[j].processed_count = jobs[j].processed_count
                /\ out'[j] = out[j]]_vars

C4_Witness ==
    /\ "j1" \in Known
    /\ jobs["j1"].status = "paused"
    /\ pc["j1"] = "sleep"
    /\ jobs["j1"].processed_count = 1
    /\ Len(Rows("j1")) = 1
    /\ Len(records["j1"]) = 2

\* the lifecycle transitions the claim lists
ListedTransitions ==
    {<<"queued", "processing">>, <<"processing", "paused">>, <<"paused", "processing">>,
     <<"processing", "stopped">>, <<"processing", "failed">>, <<"processing", "completed">>}

\* C5 as stated: every change of a job's state is one of the listed transitions.
C5_ListedOnly ==
    [][\A j \in Known :
        jobs'[j].status # jobs[j].status =>
            <<jobs[j].status, jobs'[j].status>> \in ListedTransitions]_vars

\* C5: every change of a job's state is one of the listed transitions or
\* paused to stopped; no transition leaves completed, stopped or failed.
C5_Transitions ==
    [][\A j \in Known :
        jobs'[j].status # jobs[j].status =>
            <<jobs[j].status, jobs'[j].status>>
                \in ListedTransitions \cup {<<"paused", "stopped">>}]_vars

C5_Witness ==
    /\ "j1" \in Known
    /\ jobs["j1"].status = "stopped"
    /\ waited["j1"]
    /\ jobs["j1"].processed_count = 1
    /\ ret

\* C6: once a job's state is stopped its thread has exited, and the state,
\* processed_count and the output rows never change afterwards.
C6_StoppedIsFinal ==
    /\ [](\A j \in Known : jobs[j].status = "stopped" => pc[j] = "exited")
    /\ [][\A j \in Known :
            jobs[j].status = "stopped" =>
                /\ jobs'[j].status = "stopped"
                /\ jobs'[j].processed_count = jobs[j].processed_count
                /\ out'[j] = out[j]]_vars

C6_Witness ==
    /\ "j1" \in Known
    /\ jobs["j1"].status = "stopped"
    /\ Len(Rows("j1")) = 1
    /\ Len(records["j1"]) = 2
    /\ jobs["j1"].control_req = "none"

\* C7 as stated: a job whose control flag holds a stop request never
\* transitions to completed.
C7_StopNeverCompletes ==
    [][\A j \in Known :
        jobs[j].control_req = "stop" =>
            ~(jobs[j].status # "completed" /\ jobs'[j].status = "completed")]_vars

\* C7: a job enters completed only from processing, when every loaded record
\* has its row written; a control check made while the flag holds a stop
\* request ends the job as stopped, and a job with a record that has not passed
\* its control check does not become completed.
C7_CompletedOnlyWhenExhausted ==
    [][\A j \in Known :
        /\ (jobs[j].status # "completed" /\ jobs'[j].status = "completed") =>
              /\ jobs[j].status = "processing"
              /\ Len(Rows(j)) = Len(records[j])
              /\ jobs[j].processed_count = jobs[j].total_records
              /\ ItemsStarted(j) = Len(records[j])
        /\ (pc[j] = "check" /\ pc'[j] # "check" /\ jobs[j].control_req = "stop") =>
              /\ jobs'[j].status = "stopped"
              /\ pc'[j] = "exited"]_vars

C7_Witness ==
    /\ "j1" \in Known
    /\ jobs["j1"].status = "completed"
    /\ jobs["j1"].control_req = "stop"
    /\ Len(Rows("j1")) = 2

\* the flag holds a stop request that was recorded while the job was processing
\* or paused, and a record has not yet passed its control check
StopPending(j) ==
    /\ j \in Known
    /\ jobs[j].control_req = "stop"
    /\ stop_status[j] \in {"processing", "paused"}
    /\ jobs[j].status \in {"processing", "paused"}
    /\ ItemsStarted(j) < Len(records[j])

\* while the stop request stays in the flag no further record passes its check
NoStartUnderStop ==
    [][\A j \in Known :
        (jobs[j].control_req = "stop" /\ jobs'[j].control_req = "stop") =>
            ItemsStarted(j)' = ItemsStarted(j)]_vars

\* C8 as stated: a stop request recorded while the job is processing or paused
\* with a record not yet started, and not replaced by a later pause or resume,
\* leads to stopped, and no further record is started.
C8_StopLeadsToStopped ==
    /\ \A j \in Started :
          StopPending(j) ~> (j \in Known /\ (\/ jobs[j].status = "stopped"
                                              \/ jobs[j].control_req # "stop"))
    /\ NoStartUnderStop

\* C8: such a stop request leads to stopped, or to failed when it was recorded
\* before the output file was opened and the open fails; no further record is
\* started.
C8_StopLeadsToStoppedOrFailed ==
    /\ \A j \in Started :
          StopPending(j) ~> (j \in Known /\ (\/ jobs[j].status \in {"stopped", "failed"}
                                              \/ jobs[j].control_req # "stop"))
    /\ NoStartUnderStop

C8_Witness ==
    /\ "j1" \in Known
    /\ jobs["j1"].status = "stopped"
    /\ jobs["j1"].control_req = "stop"
    /\ stop_status["j1"] = "paused"
    /\ jobs["j1"].processed_count = 1
    /\ Len(records["j1"]) = 2

\* C9: the rolling log of every job holds at most 50 lines, whichever path
\* appended the last line.
C9_LogCap == \A j \in Known : Len(jobs[j].logs) <= LogCap

\* C10: for pause, resume and stop, send_control returns true exactly when the
\* job id is in the table, whatever the job's state, and returns false and
\* changes nothing when it is not.
C10_ReturnsExistence ==
    [][\A id \in JobIds, signal \in {"pause", "resume", "stop"} :
        send_control(id, signal) =>
            /\ ret' = (id \in Known)
            /\ id \notin Known => UNCHANGED <<jobs, pc, records, i, cur, out, waited>>]_vars

C10_Witness ==
    /\ "j1" \in Known
    /\ jobs["j1"].status = "stopped"
    /\ jobs["j1"].control_req = "pause"
    /\ ret

\* the emails and phones the fetches before the k-th one extracted
EmailsBefore(k) == UNION {fetches[m].emails : m \in 1..(k - 1)}
PhonesBefore(k) == UNION {fetches[m].phones : m \in 1..(k - 1)}
FailedFetches == {k \in DOMAIN fetches : ~fetches[k].ok}

\* C18: a transport failure on the first page of a crawl ends the crawl with
\* outcome Error and no further fetch; a transport failure on a later page
\* skips only that page: the crawl goes on with the queue as it was and keeps
\* the data collected so far.
C18_TransportFailure ==
    /\ [](\A k \in FailedFetches :
            /\ k = 1 => /\ Len(fetches) = 1
                        /\ cpc = "returned"
                        /\ result.status = "Error"
            /\ k > 1 => /\ result.status # "Error"
                        /\ EmailsBefore(k) \subseteq result.emails
                        /\ PhonesBefore(k) \subseteq result.phones)
    /\ [][(/\ Len(fetches') = Len(fetches) + 1
           /\ ~fetches'[Len(fetches')].ok
           /\ Len(fetches) > 0)
          => /\ cpc' = "loop"
             /\ queue' = queue
             /\ visited' = visited
             /\ result' = result]_vars

C18_Witness ==
    /\ Len(fetches) = 3
    /\ fetches[1].ok /\ fetches[1].emails = {"e1"}
    /\ ~fetches[2].ok
    /\ fetches[3].ok /\ fetches[3].phones = {"p1"}
    /\ cpc = "returned"
    /\ result.status = "Success"
    /\ result.emails = {"e1"}

\* C19: a crawl whose loop ends without Blocked or Error returns Success
\* exactly when its email set or its phone set is non-empty and NoData
\* otherwise; NoData and Error are never returned with a non-empty email or
\* phone set.
C19_Classification ==
    cpc = "returned" =>
        /\ result.status \in {"NoData", "Error"} =>
               result.emails = {} /\ result.phones = {}
        /\ result.status \notin {"Blocked", "Error"} =>
               /\ result.status \in {"Success", "NoData"}
               /\ result.status = "Success" <=>
                      (result.emails # {} \/ result.phones # {})

C19_Witness ==
    /\ cpc = "returned"
    /\ result.status = "Success"
    /\ result.emails = {}
    /\ result.phones = {"p1"}
    /\ Len(fetches) = 2

YieldsData(f) == f.emails # {} \/ f.phones # {}
AddedNew(k) ==
    \/ fetches[k].emails \ EmailsBefore(k) # {}
    \/ fetches[k].phones \ PhonesBefore(k) # {}
UrlsOf(s) == [n \in DOMAIN s |-> s[n].url]
SourceSet == {result.source_pages[n] : n \in DOMAIN result.source_pages}

\* C20 (as stated): a visited page's URL is in source_pages exactly when the
\* page added an email or phone that the site-level sets did not hold yet.
C20_RecordedWhenNew ==
    SourceSet = {fetches[k].url : k \in {m \in DOMAIN fetches : AddedNew(m)}}

\* C20 (amended): source_pages lists, in visiting order, exactly the visited
\* pages whose own extraction yielded at least one email or phone, whether or
\* not the site-level sets already held it.
C20_RecordedWhenYielding ==
    result.source_pages = UrlsOf(SelectSeq(fetches, YieldsData))

C20_Witness ==
    /\ Len(fetches) = 2
    /\ fetches[1].emails = {"e1"} /\ fetches[1].phones = {}
    /\ fetches[2].emails = {"e1"} /\ fetches[2].phones = {}
    /\ Len(result.source_pages) = 2
    /\ result.emails = {"e1"}

\* C12: when the output file cannot be opened the job's state becomes failed,
\* its processed_count stays 0, no item is resolved or crawled and no row is
\* written.
C12_OpenFailure ==
    \A j \in Known :
        /\ (pc[j] = "exited" /\ ~out[j].header) => jobs[j].status = "failed"
        /\ jobs[j].status = "failed" =>
               /\ pc[j] = "exited"
               /\ jobs[j].processed_count = 0
               /\ Rows(j) = <<>>
               /\ ~out[j].header
               /\ cur[j] = NoCur
               /\ jobs[j].last_extracted = None
               /\ jobs[j].logs = <<"Job started.", "Failed to open output file">>

C12_Witness ==
    /\ "j1" \in Known
    /\ jobs["j1"].status = "failed"
    /\ jobs["j1"].total_records = 2
    /\ jobs["j1"].control_req = "stop"

\* a step leaves everything that belongs to job k as it was
Untouched(k) ==
    /\ k \in Known <=> k \in DOMAIN jobs'
    /\ k \in Known => jobs'[k] = jobs[k]
    /\ pc'[k] = pc[k]
    /\ records'[k] = records[k]
    /\ i'[k] = i[k]
    /\ cur'[k] = cur[k]
    /\ out'[k] = out[k]

\* C13: with several jobs running at once, starting a job, a control signal
\* addressed to a job and every step of a job's thread change only that job's
\* record and output; whatever happens to one job (failure and stop included)
\* leaves every other job's record, position and rows as they were.
C13_OnlyOwnRecord ==
    [][\A j \in JobIds :
        (\/ StartJob(j)
         \/ MultiThread(j)
         \/ \E signal \in Signals : send_control(j, signal))
        => \A k \in JobIds \ {j} : Untouched(k)]_vars

C13_Witness ==
    /\ Known = JobIds
    /\ jobs["j1"].status = "stopped"
    /\ jobs["j1"].processed_count = 0
    /\ jobs["j2"].status = "completed"
    /\ jobs["j2"].processed_count = 1
    /\ jobs["j2"].control_req = "none"
    /\ Len(Rows("j2")) = 1

\* C11: no thread holds the job-table lock while it performs a page fetch, a
\* resolver call, a delay or pause-poll sleep, or an output-file open, write
\* or flush; the lock is held only inside a critical section, which is left
\* (and the lock released) before the thread's next such step.
C11_NoLockAcrossIo ==
    \A t \in LockThreads :
        /\ Kind(t) = "io" => guard # t
        /\ guard = t <=> Kind(t) = "held"

C11_Witness ==
    /\ at["j1"] = "sleep167"
    /\ at["j2"] = "scrape201"
    /\ at["upload"] = "idle"
    /\ guard = "status"

\* the identifier of the k-th input record, and the records that are the first
\* of their identifier in the input
IdOf(k) == Trim(m_records[k])
FirstOfId(k) == \A n \in 1..(k - 1) : IdOf(n) # IdOf(k)
RowIds == {Trim(results_csv[n].company) : n \in DOMAIN results_csv}

\* C14: a batch run skips every item whose trimmed company name is in the
\* ledger when the loop reaches it and processes every other item; after a
\* run through the whole input the ledger is the ledger at start united with
\* the identifiers completed in this run (and progress.json holds the same
\* set when the last save went through).
C14_SkipAndUnion ==
    /\ [][(mpc = "loop" /\ m_i < Len(m_records) /\ mpc' # "crashed") =>
            IF Trim(m_records[m_i + 1]) \in progress
            THEN /\ m_i' = m_i + 1
                 /\ mpc' = "loop"
                 /\ UNCHANGED <<m_count, progress, progress_json, results_csv, csv_writer, hist>>
            ELSE /\ m_i' = m_i
                 /\ hist'.processed = hist.processed \cup {m_i + 1}
                 /\ mpc' \in {"delay", "resolve"}]_vars
    /\ []((mpc = "done" /\ m_records # <<>>) =>
            /\ progress = hist.start \cup hist.marked
            /\ hist.marked = {IdOf(k) : k \in hist.processed}
            /\ \A k \in DOMAIN m_records :
                   k \in hist.processed <=> (IdOf(k) \notin hist.start /\ FirstOfId(k))
            /\ hist.saved => (ParseOkJson(progress_json) /\ Parse(progress_json) = progress))

C14_Witness ==
    /\ mpc = "done"
    /\ m_records = <<" a", "b">>
    /\ hist.start = {"a"}
    /\ hist.processed = {2}
    /\ progress = {"a", "b"}
    /\ Parse(progress_json) = {"a", "b"}
    /\ ~hist.crashed

\* C15: every identifier in the saved ledger belongs to an item whose output
\* row was written before the ledger was saved, also on the path where
\* writing the row reports an error.
C15_SavedIdsHaveRows ==
    ParseOkJson(progress_json) => Parse(progress_json) \subseteq RowIds

\* C16: after a crash at any point (between the truncation and the write of a
\* ledger save included) and a restart, every identifier durably saved before
\* the crash is in the loaded ledger.
C16_CrashKeepsSaved ==
    (hist.crashed /\ hist.load \notin {"none", "unreadable"} /\ ~hist.io_failed)
        => hist.durable \subseteq progress

\* C17: when progress.json is missing, unreadable or malformed,
\* ProgressState::load returns an empty ledger and the run goes on to the
\* items, each of which it processes; the load never ends the run.
C17_LoadNeverAborts ==
    /\ [][(mpc = "load" /\ mpc' # "crashed") =>
            /\ mpc' = "open"
            /\ hist'.load \in {"missing", "unreadable", "malformed"} => progress' = {}]_vars
    /\ [](hist.load \in {"missing", "unreadable", "malformed"} =>
            /\ hist.start = {}
            /\ mpc = "done" =>
                   \A k \in DOMAIN m_records : FirstOfId(k) => k \in hist.processed)

C17_Witness ==
    /\ mpc = "done"
    /\ hist.load = "malformed"
    /\ m_records = <<"a", "b">>
    /\ hist.processed = {1, 2}
    /\ Len(results_csv) = 2

-----------------------------------------------------------------------------
(* Link discovery *)

\* the URLs a step appends to the work queue
Enqueued == SubSeq(queue', Len(queue) + 1, Len(queue'))

\* C21: the work queue grows only when the crawl is seeded and in the step
\* that processes the first fetched page of the crawl; that step appends at
\* most MaxLinks URLs, each on the domain of the seed and no two equal, and
\* the queue never holds more than the seed plus MaxLinks URLs
C21_LinksFromFirstPage ==
    /\ [][Len(queue') > Len(queue) =>
            \/ cpc = "start" /\ queue' = <<start_url>>
            \/ /\ cpc = "fetch" /\ pages_visited = 0 /\ fetches = <<>>
               /\ fetches'[1].ok /\ fetches'[1].code \notin {403, 429}
               /\ Len(Enqueued) <= MaxLinks
               /\ \A a \in DOMAIN Enqueued : Enqueued[a].domain = start_url.domain
               /\ \A a, b \in DOMAIN Enqueued : Enqueued[a] = Enqueued[b] => a = b]_vars
    /\ [](Len(queue) <= 1 + MaxLinks)

\* the first page has been processed and left MaxLinks links in the queue
C21_Witness ==
    /\ cpc = "loop"
    /\ pages_visited = 1
    /\ Len(fetches) = 1
    /\ Len(queue) = MaxLinks
    /\ \A a \in DOMAIN queue : queue[a].domain = start_url.domain /\ queue[a] # start_url

-----------------------------------------------------------------------------
(* Extractor functions *)

\* the returned strings that the region-specific pattern matched
FromIndian == {TrimStr(p) : p \in Range(IndianMatches(xin.text))}
\* the strings the generic pattern matched
FromGeneric == {TrimStr(p) : p \in Range(GenericMatches(xin.text))}
InDigitRange(p) == Len(Digits(p)) >= MinDigits /\ Len(Digits(p)) <= MaxDigits

\* C26: of the strings extract_phones returns, those that only the generic
\* pattern matched have between MinDigits and MaxDigits digits, a generic
\* match is returned exactly when its digit count is in that range (or the
\* region-specific pattern matched it too), and every match of the
\* region-specific pattern is returned
C26_GenericDigitRange ==
    xpc = "returned" /\ xin.kind = "phones" =>
        /\ xout \subseteq FromIndian \cup FromGeneric
        /\ \A p \in xout \ FromIndian : InDigitRange(p)
        /\ \A p \in FromGeneric : p \in xout <=> InDigitRange(p) \/ p \in FromIndian
        /\ FromIndian \subseteq xout

\* a text with a generic match of too few digits, which is dropped, one with
\* an admissible count, which is kept, and none of the region-specific pattern
C26_Witness ==
    /\ xpc = "returned"
    /\ xin.kind = "phones"
    /\ xin.text = <<ShortNo, DashedNo>>
    /\ xout = {DashedNo}

\* the keyword extract_job_title settles on: the first of `titles` the text holds
MatchedTitle == titles[Least({t \in DOMAIN titles :
                                Occurrences(to_lowercase(xin.text), titles[t]) # {}})]
\* the trimmed phrase between the delimiters around that keyword
MatchedPhrase ==
    TrimStr(Phrase(xin.text, Least(Occurrences(to_lowercase(xin.text), MatchedTitle))))

\* C25: when the text holds a keyword, extract_job_title returns the phrase
\* around it if the phrase is longer than the keyword and has at most
\* TitleLimit characters, and the bare keyword otherwise
C25_PhraseUpToLimit ==
    xpc = "returned" /\ xin.kind = "title" /\ xout # None =>
        xout = IF Len(MatchedPhrase) > Len(MatchedTitle) /\ Len(MatchedPhrase) <= TitleLimit
               THEN Some(MatchedPhrase)
               ELSE Some(MatchedTitle)

-----------------------------------------------------------------------------
(* Contacts and the phone set of a crawl result *)

\* C23: every Contact of the crawl result has a name or a title, and no two
\* Contacts of the list have both the same phone and the same name
C23_ContactsIdentified ==
    /\ \A k \in DOMAIN result.contacts :
          result.contacts[k].name # None \/ result.contacts[k].title # None
    /\ \A a, b \in DOMAIN result.contacts :
          /\ result.contacts[a].phone = result.contacts[b].phone
          /\ result.contacts[a].name = result.contacts[b].name
          => a = b

\* a crawl of two pages has returned two Contacts with the same phone, one
\* known by name and one by title only
C23_Witness ==
    /\ cpc = "returned"
    /\ pages_visited = 2
    /\ \E a, b \in DOMAIN result.contacts :
          /\ result.contacts[a].phone = result.contacts[b].phone
          /\ result.contacts[a].name # None
          /\ result.contacts[b].name = None
          /\ result.contacts[b].title # None

\* C24: no two entries of the phone set of the crawl result have the same
\* digit-only form
C24_PhonesDistinctDigits ==
    \A p, q \in result.phones : Digits(p) = Digits(q) => p = q

-----------------------------------------------------------------------------
(* End to end: one item from the record to its output row *)

EmptySlots == [k \in 1..ContactSlots |-> [name |-> "", title |-> "", phone |-> <<>>, email |-> ""]]

\* the resolver has returned none for the item the thread of j is at
NoSite(j) ==
    /\ pc[j] \in {"notfound", "found", "write"}
    /\ records[j][i[j] + 1] = "blank"
    /\ cur[j].url = ""

NotFoundRow(j) ==
    [company |-> Company(i[j] + 1), website |-> "", emails |-> {}, phones |-> {},
     sources |-> <<>>, status |-> "not_found", contacts |-> EmptySlots]

\* C27: from the moment the resolver returns none for an item without website
\* until its row is written, scrape_site is not entered; the step that leaves
\* the write appends one row, with outcome not_found, empty website, email,
\* phone and source fields and ContactSlots empty contact slots; the job of
\* that one item ends with one row, and when it is the not_found row no
\* fetch was made
C27_NotFoundRow ==
    /\ [](\A j \in Known : NoSite(j) => cpc = "idle" /\ fetches = <<>> /\ out[j].rows = <<>>)
    /\ [][\A j \in Known : NoSite(j) /\ pc[j] = "write" /\ pc'[j] # "write" =>
              /\ out'[j].rows = <<NotFoundRow(j)>>
              /\ UNCHANGED <<cpc, fetches>>]_vars
    /\ [](\A j \in Known : pc[j] \in {"finish", "exited"} /\ records[j] = <<"blank">> =>
              /\ Len(out[j].rows) = 1
              /\ fetches = <<>> => out[j].rows[1].status \in {"not_found", "error"}
              /\ out[j].rows[1].status = "not_found" => fetches = <<>> /\ cpc = "idle")

\* the job of one record without website has exited with the not_found row
C27_Witness ==
    /\ "j1" \in Known
    /\ pc["j1"] = "exited"
    /\ records["j1"] = <<"blank">>
    /\ fetches = <<>>
    /\ cpc = "idle"
    /\ out["j1"].rows = <<[company |-> Company(1), website |-> "", emails |-> {},
                           phones |-> {}, sources |-> <<>>, status |-> "not_found",
                           contacts |-> EmptySlots]>>

\* the first fetch of the crawl has returned 403 or 429
BlockedAtOnce == fetches # <<>> /\ fetches[1].ok /\ fetches[1].code \in {403, 429}

\* C28: when the first fetch of a crawl returns 403 or 429 the crawl makes no
\* other fetch and returns Blocked with no email, phone, contact or source
\* page, and the row of the item carries blocked with empty email and phone
\* columns
C28_BlockedAtOnce ==
    BlockedAtOnce =>
        /\ Len(fetches) = 1
        /\ cpc \in {"returned", "idle"}
        /\ result = [default_result EXCEPT !.status = "Blocked"]
        /\ \A j \in Known :
              /\ pc[j] \in {"found", "write"} =>
                    cur[j].status_str = "blocked" /\ cur[j].emails = {} /\ cur[j].phones = {}
              /\ pc[j] \in {"finish", "exited"} =>
                    /\ Len(out[j].rows) = 1
                    /\ out[j].rows[1].status = "blocked"
                    /\ out[j].rows[1].emails = {}
                    /\ out[j].rows[1].phones = {}

\* the job has exited after a crawl whose first fetch returned 429
C28_Witness ==
    /\ BlockedAtOnce
    /\ fetches[1].code = 429
    /\ "j1" \in Known
    /\ pc["j1"] = "exited"
    /\ out["j1"].rows[1].status = "blocked"

-----------------------------------------------------------------------------
(* Pause and the latest signal *)

\* a pause request is in the flag of a job that is processing and has a
\* record not yet started
PausePending(j) ==
    /\ j \in Known
    /\ jobs[j].control_req = "pause"
    /\ pause_items[j] >= 0
    /\ jobs[j].status = "processing"
    /\ ItemsStarted(j) < Len(records[j])

\* while a pause request stays in the flag the job starts at most one item,
\* and the job becomes paused only in a control check, between two items
PauseBetweenItems ==
    /\ [](\A j \in Known : pause_items[j] <= 1)
    /\ [][\A j \in Known :
            jobs'[j].status = "paused" /\ jobs[j].status # "paused" =>
                pc[j] = "check" /\ pc'[j] = "sleep" /\ jobs[j].control_req = "pause"]_vars

\* C29 as stated: a pause request does not interrupt the item in flight; from
\* its recording on, and while it stays in the flag, the job starts at most
\* one more item, and with a record not yet started it leads to paused
C29_PauseLeadsToPaused ==
    /\ PauseBetweenItems
    /\ \A j \in Started :
          PausePending(j) ~> (j \in Known /\ (\/ jobs[j].status = "paused"
                                              \/ jobs[j].control_req # "pause"))

\* C29: such a pause request leads to paused, or to failed when it was
\* recorded before the output file was opened and the open fails
C29_PauseLeadsToPausedOrFailed ==
    /\ PauseBetweenItems
    /\ \A j \in Started :
          PausePending(j) ~> (j \in Known /\ (\/ jobs[j].status \in {"paused", "failed"}
                                              \/ jobs[j].control_req # "pause"))

\* the job is paused after the one item it started under the pause request,
\* with a record left
C29_Witness ==
    /\ "j1" \in Known
    /\ jobs["j1"].status = "paused"
    /\ jobs["j1"].control_req = "pause"
    /\ pause_items["j1"] = 1
    /\ jobs["j1"].processed_count = 1
    /\ Len(out["j1"].rows) = 1
    /\ Len(records["j1"]) = 2

\* C30: the flag holds the latest signal only: once a pause or resume has
\* overwritten a stop request the thread had not acted on, the flag holds
\* pause or none and the job is not stopped, and a job becomes stopped only
\* in a control check that finds stop in the flag
C30_LatestSignalOnly ==
    /\ [](\A j \in Known : stop_status[j] = "replaced" =>
              /\ jobs[j].control_req \in {"pause", "none"}
              /\ jobs[j].status # "stopped")
    /\ [][\A j \in Known :
            jobs'[j].status = "stopped" /\ jobs[j].status # "stopped" =>
                pc[j] = "check" /\ jobs[j].control_req = "stop"]_vars
    /\ [][\A j \in Known :
            jobs[j].control_req = "stop" /\ jobs'[j].control_req # "stop" =>
                /\ jobs'[j].control_req \in {"pause", "none"}
                /\ jobs[j].status \in Live => stop_status'[j] = "replaced"]_vars

\* a stop request was overwritten by a pause, and the job has paused at its
\* next control check, with both records still to be processed
C30_Witness ==
    /\ "j1" \in Known
    /\ stop_status["j1"] = "replaced"
    /\ jobs["j1"].control_req = "pause"
    /\ jobs["j1"].status = "paused"
    /\ pc["j1"] = "sleep"
    /\ Len(records["j1"]) = 2

-----------------------------------------------------------------------------
(* The site delay *)

Most(a, b) == IF a >= b THEN a ELSE b

\* every site delay of a job thread comes after the row of an item that is
\* not the last of the list, one delay for each such item so far
JobDelaySteps ==
    [][\A j \in Known :
        site_delays'[j] # site_delays[j] =>
            /\ site_delays'[j] = site_delays[j] + 1
            /\ site_delays'[j] = jobs[j].processed_count
            /\ Len(out[j].rows) = jobs[j].processed_count
            /\ jobs[j].processed_count < Len(records[j])]_vars

\* every site delay of the batch run comes before an item that is not in the
\* ledger and is not the first item the run processes, one delay for each such
\* item so far; the skip of an item of the ledger makes none
BatchDelaySteps ==
    /\ [][hist'.delays # hist.delays /\ mpc # "crashed" /\ mpc' # "crashed" =>
            /\ hist'.delays = hist.delays + 1
            /\ hist'.delays = m_count - 1
            /\ m_count >= 2
            /\ Trim(m_records[m_i + 1]) \notin progress]_vars
    /\ [][mpc = "loop" /\ m_i' = m_i + 1 => hist'.delays = hist.delays /\ mpc' = "loop"]_vars
    /\ [](mpc \in {"done", "aborted"} => hist.delays = Most(m_count - 1, 0))

\* C22 as stated: in a job run and in a batch run every site delay lies
\* between two processed items: a run that has ended has made one delay less
\* than it has processed items (none when it processed none), and items
\* skipped through the ledger cause no delay
C22_DelayBetweenProcessed ==
    /\ JobDelaySteps
    /\ BatchDelaySteps
    /\ [](\A j \in Known : jobs[j].status \in {"completed", "stopped", "failed"} =>
              site_delays[j] = Most(jobs[j].processed_count - 1, 0))

\* C22: in a job run the site delay follows every item but the last of the
\* list: a completed job has made one delay less than it has items, and a job
\* stopped after an item has slept after that item too; in a batch run the
\* delay precedes every processed item but the first, never a skipped one
C22_DelayBetweenListed ==
    /\ JobDelaySteps
    /\ BatchDelaySteps
    /\ [](\A j \in Known :
              /\ site_delays[j] <= Most(Len(records[j]) - 1, 0)
              /\ jobs[j].status = "completed" =>
                    site_delays[j] = Most(jobs[j].processed_count - 1, 0)
              /\ jobs[j].status = "stopped" => site_delays[j] = jobs[j].processed_count
              /\ jobs[j].status = "failed" => site_delays[j] = 0)

\* a job of two records has completed with one site delay
C22_Witness ==
    /\ "j1" \in Known
    /\ jobs["j1"].status = "completed"
    /\ Len(records["j1"]) = 2
    /\ Len(out["j1"].rows) = 2
    /\ site_delays["j1"] = 1


\* the thread's own resume branch of the control loop (lines 158-162)
ResumeBranch(job) == job.status = "paused" /\ job.control_req = "none"

\* C31: a paused job has control flag pause or stop, never none; the thread
\* never stands at a control check that would take its own resume branch, and
\* no log holds the line that branch writes
C31_PausedHasRequest ==
    \A j \in Known :
        /\ jobs[j].status = "paused" => jobs[j].control_req \in {"pause", "stop"}
        /\ ~ResumeBranch(jobs[j])
        /\ \A k \in DOMAIN jobs[j].logs : jobs[j].logs[k] # "Job resumed."

\* a job that was paused and has been resumed by send_control, back at its check
C31_Witness ==
    \E j \in Known :
        /\ waited[j]
        /\ pc[j] = "check"
        /\ jobs[j].status = "processing"
        /\ jobs[j].control_req = "none"


\* the count of a job against its total and its output rows
CountInStep(j) ==
    /\ jobs[j].processed_count <= jobs[j].total_records
    /\ jobs[j].processed_count \in {Len(Rows(j)), Len(Rows(j)) + 1}

\* no step lowers the count of a job
CountGrows == \A j \in Known : jobs'[j].processed_count >= jobs[j].processed_count

EmailsOf(fs) == UNION {fs[k].emails : k \in DOMAIN fs}
PhonesOf(fs) == UNION {fs[k].phones : k \in DOMAIN fs}
RECURSIVE SourcesOf(_)
SourcesOf(fs) ==
    IF fs = <<>> THEN <<>>
    ELSE IF Head(fs).emails # {} \/ Head(fs).phones # {}
         THEN <<Head(fs).url>> \o SourcesOf(Tail(fs))
         ELSE SourcesOf(Tail(fs))

\* the crawl has just been blocked on a page after the first
BlockedLater == result.status # "Blocked" /\ result'.status = "Blocked" /\ Len(fetches) >= 1

\* the row of a job whose crawl was blocked on a page after the first
BlockedLaterRow(j) ==
    /\ pc[j] \in {"finish", "exited"}
    /\ Len(Rows(j)) = 1
    /\ Rows(j)[1].status = "blocked"
    /\ Len(fetches) > 1

\* C33: a crawl blocked on a page after the first returns the emails, phones,
\* contacts and source pages of the pages visited before, and the job writes
\* them into the row of the item
C33_BlockedKeepsCollected ==
    /\ [][BlockedLater => result' = [result EXCEPT !.status = "Blocked"]]_vars
    /\ [](cpc = "returned" /\ result.status = "Blocked" =>
             /\ result.emails = EmailsOf(fetches)
             /\ result.phones = PhonesOf(fetches)
             /\ result.source_pages = SourcesOf(fetches))
    /\ [](\A j \in Known : BlockedLaterRow(j) =>
             /\ Rows(j)[1].emails = EmailsOf(fetches)
             /\ Rows(j)[1].phones = PhonesOf(fetches)
             /\ Rows(j)[1].sources = SourcesOf(fetches)
             /\ Rows(j)[1].contacts = [k \in 1..ContactSlots |-> Slot(result.contacts, k)])

\* a written row of a crawl blocked on its second page, with an email, a
\* phone, a source page and a contact from the first
C33_Witness ==
    \E j \in Known :
        /\ BlockedLaterRow(j)
        /\ Rows(j)[1].emails # {}
        /\ Rows(j)[1].phones # {}
        /\ Rows(j)[1].sources # <<>>
        /\ Rows(j)[1].contacts[1].title # ""


\* the loop stands at a record whose identifier this run has marked complete
AtRepeated ==
    /\ mpc = "loop"
    /\ m_i < Len(m_records)
    /\ IdOf(m_i + 1) \in hist.marked

\* C34: within one batch run each identifier is processed at most once, also
\* when the input holds it several times: once the first occurrence is
\* marked complete, a later one is skipped and no row is written for it
C34_IdentifierOnce ==
    /\ [](\A k, n \in hist.processed : IdOf(k) = IdOf(n) => k = n)
    /\ [][(AtRepeated /\ mpc' # "crashed") =>
            /\ m_i' = m_i + 1
            /\ mpc' = "loop"
            /\ UNCHANGED <<m_count, progress, results_csv, csv_writer>>]_vars
    /\ [][Len(csv_writer') > Len(csv_writer) =>
            IdOf(m_i + 1) \notin hist.marked \cup progress]_vars

\* a run through an input that names one company twice, the second time with
\* a leading blank: one item processed, one row
C34_Witness ==
    /\ mpc = "done"
    /\ m_records = <<"a", " a">>
    /\ hist.start = {}
    /\ hist.processed = {1}
    /\ Len(results_csv) = 1
    /\ ~hist.crashed


\* the job has reached one of the states in which its thread has returned
Ended(j) == j \in Known /\ jobs[j].status \in {"completed", "stopped", "failed"}

\* the job holds a pause request
PauseHeld(j) == j \in Known /\ jobs[j].control_req = "pause"

\* the thread has loaded an empty list and has not yet opened the output file
EmptyLoaded(j) == j \in Known /\ pc[j] = "open" /\ records[j] = <<>>

\* a job of no item never pauses or stops, counts nothing and writes no row
EmptyJobQuiet ==
    \A j \in Known :
        (pc[j] \notin {"none", "load"} /\ records[j] = <<>>) =>
            /\ jobs[j].status \in {"processing", "completed", "failed"}
            /\ jobs[j].processed_count = 0
            /\ Rows(j) = <<>>

\* every pause request is in the end followed by a resume or a stop
PauseAlwaysAnswered(j) == [](PauseHeld(j) => <>(~PauseHeld(j)))

\* from some moment on the job holds no pause request
PauseCeases(j) == <>[](~PauseHeld(j))

\* C35 as stated: a started job whose pause requests are each followed by a
\* resume or stop ends completed, stopped or failed; a job of no item goes
\* through processing to completed and writes no row
C35_EveryJobEnds ==
    /\ \A j \in Started : (<>(j \in Known) /\ PauseAlwaysAnswered(j)) => <>Ended(j)
    /\ \A j \in Started : EmptyLoaded(j) ~> (j \in Known /\ jobs[j].status = "completed")
    /\ []EmptyJobQuiet

\* C35: a started job that from some moment on holds no pause request ends
\* completed, stopped or failed; a job of no item goes through processing to
\* completed, or to failed when the output file cannot be opened, and writes
\* no row
C35_EveryJobEndsOncePauseCeases ==
    /\ \A j \in Started : (<>(j \in Known) /\ PauseCeases(j)) => <>Ended(j)
    /\ \A j \in Started :
          EmptyLoaded(j) ~> (j \in Known /\ jobs[j].status \in {"completed", "failed"})
    /\ []EmptyJobQuiet

\* a job that was paused, was resumed and has completed its list
C35_Witness ==
    \E j \in Known :
        /\ jobs[j].status = "completed"
        /\ pc[j] = "exited"
        /\ waited[j]
        /\ records[j] # <<>>
        /\ Len(Rows(j)) = Len(records[j])

=============================================================================
